---- MODULE Spec2Model ----
(***************************************************************************)
(* cloudcost-mcp: the pricing updater service (src/src/pricing-updater.ts) *)
(* and the hybrid task classifier (engine/task-classifier, held in         *)
(* src/unnamed/part_007).                                                  *)
(*                                                                         *)
(* pricing-updater.ts holds two revisions of the service one after the     *)
(* other: lines 1-1113 (v2.0.0, nine sources, safeWriteJson, fetch with    *)
(* AbortSignal.timeout) and lines 1115-1490 (v1.0.0, five sources,         *)
(* fs.writeFileSync on the catalog file itself, fetch without a signal).   *)
(* Both are modelled; `rev` says which set of definitions is running.      *)
(* Lines 316-371 are a stray second main()/updateAllPricing() pasted into  *)
(* the body of fetchAWSBulkPricing; they do not parse and are not          *)
(* modelled.                                                               *)
(*                                                                         *)
(* Node runs one JavaScript handler at a time.  `js` is the frame the      *)
(* thread is executing; events (HTTP requests, the interval timer, fetch   *)
(* completions) are taken only when it is idle.  A handler is split into   *)
(* steps only where the file system passes through a state another         *)
(* process can read (open / flush / rename of a catalog write).            *)
(***************************************************************************)
EXTENDS Integers, Sequences, FiniteSets, TLC

\* ------------------------------------------------------------- bounds
MaxCycles == 2      \* update cycles started in one behaviour
MaxRequests == 1    \* POST /trigger requests received in one behaviour

\* ------------------------------------------------- program constants
INDEX_TIMEOUT_MS == 10000
HEAD_TIMEOUT_MS == 5000
AZURE_TIMEOUT_MS == 15000
NO_TIMEOUT == 0
HTTP_OK == 200
HTTP_CONFLICT == 409

VARIABLES
    rev,              \* "v1" | "v2": which revision of the file is running
    readOnly,         \* catalog files whose directory entry cannot be written
    files,            \* pricing/<f>.json as another process reads it
    tmp,              \* pricing/<f>.json.tmp
    mainPc,           \* main(): "start" | "initial" | "serving" | "failed"
    intervalArmed,    \* setInterval has been called
    isUpdating,       \* the re-entrancy flag
    lastUpdateResult, \* the cached UpdateResult
    cycles,           \* runPricingUpdate() calls in flight, by cycle id
    nextId,           \* id of the next cycle
    js,               \* the frame the JavaScript thread is executing
    requests,         \* POST /trigger requests received so far
    statusReply,      \* the GET /status response written in the last step
    lastDone,         \* the UpdateResult of the cycle that returned last
    offers,           \* the prices the Azure response of each cycle quoted
    text,             \* classifier: the task description, a sequence of characters
    result,           \* classifier: the ClassificationResult returned
    sortedCategories, \* classifier: the ranking the result was taken from
    apiKey,           \* classifier: process.env.HUGGINGFACE_API_KEY, "" when unset
    hf,               \* classifier: the call in progress and what the remote service said
    keywordResult,    \* classifier: classifyTask's keywordResult
    request,          \* resolvers: the tool call being answered
    response          \* resolvers: what the handler returned or threw

updaterVars == <<rev, readOnly, files, tmp, mainPc, intervalArmed, isUpdating,
                 lastUpdateResult, cycles, nextId, js, requests, statusReply,
                 lastDone, offers>>
classifierVars == <<text, result, sortedCategories, apiKey, hf, keywordResult>>
resolverVars == <<request, response>>
vars == <<updaterVars, classifierVars, resolverVars>>

\* ============================================== the task classifier
MaxWords == 3       \* words in a task description
MaxTokenSteps == 2  \* token counts of a request, in steps of 500

\* the category -> keywords table, in declaration order
TASK_PATTERNS == <<
    [category |-> "development", keywords |-> <<
        <<"b","u","i","l","d">>, <<"c","r","e","a","t","e">>, <<"m","a","k","e">>,
        <<"d","e","v","e","l","o","p">>, <<"i","m","p","l","e","m","e","n","t">>, <<"a","p","p">>,
        <<"t","o","o","l">>, <<"s","y","s","t","e","m">>, <<"p","l","a","t","f","o","r","m">>,
        <<"w","e","b","s","i","t","e">>, <<"w","e","b","a","p","p">>,
        <<"a","p","p","l","i","c","a","t","i","o","n">>, <<"s","o","f","t","w","a","r","e">>,
        <<"p","r","o","j","e","c","t">>, <<"s","t","a","r","t","u","p">>,
        <<"p","r","o","d","u","c","t">>, <<"s","e","r","v","i","c","e">>,
        <<"s","o","l","u","t","i","o","n">>, <<"a","u","t","o","m","a","t","e">>,
        <<"a","u","t","o","m","a","t","i","o","n">>, <<"b","o","t">>, <<"c","l","i">>,
        <<"a","p","i">>, <<"b","a","c","k","e","n","d">>, <<"f","r","o","n","t","e","n","d">>,
        <<"f","u","l","l","s","t","a","c","k">>, <<"s","a","a","s">>,
        <<"c","o","n","v","e","r","t">>, <<"c","o","n","v","e","r","t","e","r">>,
        <<"g","e","n","e","r","a","t","o","r">>, <<"b","u","i","l","d","e","r">>,
        <<"m","a","k","e","r">> >>],
    [category |-> "code", keywords |-> <<
        <<"c","o","d","e">>, <<"c","o","d","i","n","g">>,
        <<"p","r","o","g","r","a","m","m","i","n","g">>, <<"d","e","b","u","g">>,
        <<"d","e","b","u","g","g","i","n","g">>, <<"r","e","f","a","c","t","o","r">>,
        <<"f","u","n","c","t","i","o","n">>, <<"s","c","r","i","p","t">>,
        <<"a","l","g","o","r","i","t","h","m">>, <<"s","y","n","t","a","x">>,
        <<"c","o","m","p","i","l","e">>, <<"r","u","n","t","i","m","e">>,
        <<"j","a","v","a","s","c","r","i","p","t">>, <<"p","y","t","h","o","n">>,
        <<"t","y","p","e","s","c","r","i","p","t">>, <<"j","a","v","a">>, <<"r","u","s","t">>,
        <<"g","o","l","a","n","g">>, <<"r","e","a","c","t">>, <<"v","u","e">>,
        <<"a","n","g","u","l","a","r">>, <<"n","o","d","e","j","s">>, <<"d","j","a","n","g","o">>,
        <<"f","l","a","s","k">> >>],
    [category |-> "audio", keywords |-> <<
        <<"v","o","i","c","e">>, <<"a","u","d","i","o">>, <<"s","p","e","e","c","h">>,
        <<"s","o","u","n","d">>, <<"m","u","s","i","c">>, <<"p","o","d","c","a","s","t">>,
        <<"t","r","a","n","s","c","r","i","b","e">>,
        <<"t","r","a","n","s","c","r","i","p","t","i","o","n">>, <<"t","t","s">>,
        <<"t","e","x","t","-","t","o","-","s","p","e","e","c","h">>,
        <<"s","p","e","e","c","h","-","t","o","-","t","e","x","t">>, <<"s","t","t">>,
        <<"v","o","i","c","e"," ","c","l","o","n","e">>,
        <<"v","o","i","c","e"," ","c","o","n","v","e","r","s","i","o","n">>,
        <<"s","i","n","g","i","n","g">>, <<"s","o","n","g">>, <<"s","p","o","k","e","n">>,
        <<"n","a","r","r","a","t","i","o","n">>, <<"a","u","d","i","o","b","o","o","k">>,
        <<"p","r","o","n","u","n","c","i","a","t","i","o","n">>, <<"a","c","c","e","n","t">> >>],
    [category |-> "video", keywords |-> <<
        <<"v","i","d","e","o">>, <<"a","n","i","m","a","t","i","o","n">>,
        <<"a","n","i","m","a","t","e">>, <<"a","n","i","m","a","t","e","d">>,
        <<"m","o","v","i","e">>, <<"f","i","l","m">>, <<"p","p","t">>,
        <<"p","o","w","e","r","p","o","i","n","t">>,
        <<"p","r","e","s","e","n","t","a","t","i","o","n">>, <<"s","l","i","d","e","s">>,
        <<"s","l","i","d","e","s","h","o","w">>, <<"y","o","u","t","u","b","e">>,
        <<"s","t","r","e","a","m">>, <<"s","t","r","e","a","m","i","n","g">>, <<"c","l","i","p">>,
        <<"m","o","n","t","a","g","e">>, <<"e","d","i","t","i","n","g">>,
        <<"r","e","n","d","e","r">>, <<"r","e","n","d","e","r","i","n","g">>,
        <<"m","o","t","i","o","n">>, <<"v","i","s","u","a","l"," ","e","f","f","e","c","t","s">>,
        <<"v","f","x">> >>],
    [category |-> "vision", keywords |-> <<
        <<"i","m","a","g","e">>, <<"p","h","o","t","o">>, <<"p","i","c","t","u","r","e">>,
        <<"o","c","r">>, <<"s","c","r","e","e","n","s","h","o","t">>,
        <<"d","i","a","g","r","a","m">>, <<"v","i","s","u","a","l">>,
        <<"g","r","a","p","h","i","c">>, <<"c","h","a","r","t">>,
        <<"i","n","f","o","g","r","a","p","h","i","c">>, <<"s","c","a","n">>,
        <<"r","e","c","o","g","n","i","z","e">>,
        <<"d","e","t","e","c","t"," ","o","b","j","e","c","t">>,
        <<"f","a","c","e"," ","d","e","t","e","c","t","i","o","n">>,
        <<"i","m","a","g","e"," ","r","e","c","o","g","n","i","t","i","o","n">> >>],
    [category |-> "reasoning", keywords |-> <<
        <<"r","e","a","s","o","n">>, <<"r","e","a","s","o","n","i","n","g">>, <<"m","a","t","h">>,
        <<"m","a","t","h","e","m","a","t","i","c","s">>, <<"l","o","g","i","c">>,
        <<"l","o","g","i","c","a","l">>, <<"a","n","a","l","y","z","e">>,
        <<"a","n","a","l","y","s","i","s">>, <<"c","a","l","c","u","l","a","t","e">>,
        <<"c","a","l","c","u","l","a","t","i","o","n">>, <<"c","o","m","p","l","e","x">>,
        <<"p","r","o","b","l","e","m"," ","s","o","l","v","i","n","g">>,
        <<"d","e","d","u","c","e">>, <<"i","n","f","e","r","e","n","c","e">>,
        <<"p","r","o","v","e">>, <<"t","h","e","o","r","e","m">> >>],
    [category |-> "embedding", keywords |-> <<
        <<"e","m","b","e","d">>, <<"e","m","b","e","d","d","i","n","g">>,
        <<"s","e","a","r","c","h">>, <<"s","i","m","i","l","a","r","i","t","y">>,
        <<"v","e","c","t","o","r">>, <<"s","e","m","a","n","t","i","c">>, <<"r","a","g">>,
        <<"r","e","t","r","i","e","v","a","l">>,
        <<"n","e","a","r","e","s","t"," ","n","e","i","g","h","b","o","r">>,
        <<"c","o","s","i","n","e">>, <<"v","e","c","t","o","r","i","z","e">> >>],
    [category |-> "classification", keywords |-> <<
        <<"c","l","a","s","s","i","f","y">>,
        <<"c","l","a","s","s","i","f","i","c","a","t","i","o","n">>,
        <<"c","a","t","e","g","o","r","i","z","e">>, <<"c","a","t","e","g","o","r","y">>,
        <<"l","a","b","e","l">>, <<"l","a","b","e","l","i","n","g">>, <<"t","a","g">>,
        <<"t","a","g","g","i","n","g">>, <<"d","e","t","e","c","t">>,
        <<"d","e","t","e","c","t","i","o","n">>, <<"s","e","n","t","i","m","e","n","t">>,
        <<"s","p","a","m">>, <<"f","i","l","t","e","r">>, <<"s","o","r","t">> >>],
    [category |-> "extraction", keywords |-> <<
        <<"e","x","t","r","a","c","t">>, <<"e","x","t","r","a","c","t","i","o","n">>,
        <<"p","a","r","s","e">>, <<"p","a","r","s","i","n","g">>, <<"s","c","r","a","p","e">>,
        <<"s","c","r","a","p","i","n","g">>, <<"p","u","l","l">>, <<"m","i","n","e">>,
        <<"m","i","n","i","n","g">>,
        <<"d","a","t","a"," ","e","x","t","r","a","c","t","i","o","n">>,
        <<"w","e","b"," ","s","c","r","a","p","i","n","g">> >>],
    [category |-> "chat", keywords |-> <<
        <<"c","h","a","t">>, <<"c","o","n","v","e","r","s","a","t","i","o","n">>,
        <<"t","a","l","k">>, <<"d","i","s","c","u","s","s">>, <<"q","u","e","s","t","i","o","n">>,
        <<"a","n","s","w","e","r">>, <<"h","e","l","p">>, <<"e","x","p","l","a","i","n">>,
        <<"w","h","a","t"," ","i","s">>, <<"h","o","w"," ","t","o">>,
        <<"t","e","l","l"," ","m","e">>, <<"d","e","s","c","r","i","b","e">> >>] >>

Categories == {TASK_PATTERNS[i].category : i \in DOMAIN TASK_PATTERNS}
PatternOf(cat) == CHOOSE i \in DOMAIN TASK_PATTERNS : TASK_PATTERNS[i].category = cat
KeywordsOf(cat) == TASK_PATTERNS[PatternOf(cat)].keywords

UPPER == <<"A","B","C","D","E","F","G","H","I","J","K","L","M",
           "N","O","P","Q","R","S","T","U","V","W","X","Y","Z">>
LOWER == <<"a","b","c","d","e","f","g","h","i","j","k","l","m",
           "n","o","p","q","r","s","t","u","v","w","x","y","z">>

\* String.prototype.toLowerCase
LowerChar(ch) ==
    IF \E i \in DOMAIN UPPER : UPPER[i] = ch
    THEN LOWER[CHOOSE i \in DOMAIN UPPER : UPPER[i] = ch]
    ELSE ch
ToLowerCase(str) == [i \in DOMAIN str |-> LowerChar(str[i])]

\* String.prototype.includes with the keyword starting at any position
IncludesAt(str, kw, i) ==
    \A j \in 1..Len(kw) : str[i + j - 1] = kw[j]

\* taskLower.includes(keyword)
Includes(str, kw) ==
    \E i \in 1..(Len(str) - Len(kw) + 1) : IncludesAt(str, kw, i)

\* the inner loop over one category's keywords, from keyword i on:
\* scores[category]++ and matches[category].push(keyword) for each hit
RECURSIVE ScanKeywords(_, _, _, _)
ScanKeywords(taskLower, keywords, i, acc) ==
    IF i > Len(keywords) THEN acc
    ELSE ScanKeywords(taskLower, keywords, i + 1,
            IF Includes(taskLower, keywords[i])
            THEN [score |-> acc.score + 1, matches |-> Append(acc.matches, keywords[i])]
            ELSE acc)

\* Object.entries(scores), with each category's matches alongside
ScoreEntries(taskLower) ==
    [i \in DOMAIN TASK_PATTERNS |->
        LET hit == ScanKeywords(taskLower, TASK_PATTERNS[i].keywords, 1,
                                [score |-> 0, matches |-> <<>>])
        IN [category |-> TASK_PATTERNS[i].category, score |-> hit.score,
            matches |-> hit.matches]]

\* ties with the comparator (a, b) => b - a put the later entry first
InsertBeforeTies(sorted, e) ==
    LET before == {k \in DOMAIN sorted : sorted[k].score > e.score}
        n == Cardinality(before)
    IN SubSeq(sorted, 1, n) \o <<e>> \o SubSeq(sorted, n + 1, Len(sorted))

\* one step of Array.prototype.sort with (a, b) => b - a: the sort is
\* stable, so an entry goes behind every entry whose score is not smaller
InsertByScore(sorted, e) ==
    LET before == {k \in DOMAIN sorted : sorted[k].score >= e.score}
        n == Cardinality(before)
    IN SubSeq(sorted, 1, n) \o <<e>> \o SubSeq(sorted, n + 1, Len(sorted))

RECURSIVE SortFrom(_, _, _)
SortFrom(entries, i, sorted) ==
    IF i > Len(entries) THEN sorted
    ELSE SortFrom(entries, i + 1, InsertByScore(sorted, entries[i]))

\* Object.entries(scores).sort(([, a], [, b]) => b - a)
SortByScore(entries) == SortFrom(entries, 1, <<>>)

HIGH_SCORE == 3
MEDIUM_SCORE == 2

\* the allow-list without its last element
SPECIFIC_DOMAINS_NO_VISION == {"audio", "video"}

\* ['audio', 'video', 'vision']
SPECIFIC_DOMAINS == {"audio", "video", "vision"}

\* a tie at the top counted as a lead
ConfidenceTieIsLead(topScore, secondScore) ==
    IF topScore >= HIGH_SCORE THEN "high"
    ELSE IF topScore >= MEDIUM_SCORE \/ (topScore >= 1 /\ topScore >= secondScore)
         THEN "medium"
         ELSE "low"

Confidence(topScore, secondScore) ==
    IF topScore >= HIGH_SCORE THEN "high"
    ELSE IF topScore >= MEDIUM_SCORE \/ (topScore >= 1 /\ topScore > secondScore)
         THEN "medium"
         ELSE "low"

\* the top category returned also when it scored nothing
TopOrChatNoDefault(top) == top.category

\* topScore === 0 ? 'chat' : topCategory
TopOrChat(top) == IF top.score = 0 THEN "chat" ELSE top.category

\* classifyByKeywords, given the sorted entries
ResultOf(sorted) ==
    LET top == sorted[1]
        second == sorted[2]
        scores == [c \in Categories |-> sorted[CHOOSE k \in DOMAIN sorted : sorted[k].category = c].score]
        dev == sorted[CHOOSE k \in DOMAIN sorted : sorted[k].category = "development"]
    IN IF top.category = "development" /\ second.score >= 1
          /\ second.category \in SPECIFIC_DOMAINS
       THEN [taskType |-> second.category, confidence |-> "medium",
             matchedKeywords |-> second.matches \o dev.matches,
             allScores |-> scores, usedFallback |-> FALSE]
       ELSE [taskType |-> TopOrChat(top),
             confidence |-> Confidence(top.score, second.score),
             matchedKeywords |-> top.matches,
             allScores |-> scores, usedFallback |-> FALSE]

SortedCategories(task) == SortByScore(ScoreEntries(ToLowerCase(task)))
classifyByKeywords(task) == ResultOf(SortedCategories(task))

NoResult == [taskType |-> "none", confidence |-> "none", matchedKeywords |-> <<>>,
             allScores |-> <<>>, usedFallback |-> FALSE]

\* the words task descriptions are put together from
Vocabulary == {
    <<"w","e","b","a","p","p">>,
    <<"c","o","n","v","e","r","t","e","r">>,
    <<"V","o","i","c","e">>,
    <<"v","i","d","e","o">>,
    <<"i","m","a","g","e">>,
    <<"c","o","d","e">>,
    <<"h","e","l","l","o">> }

\* 'an app to convert my voice into someone else'
VoiceAppTask ==
    <<"a","n"," ","a","p","p"," ","t","o"," ","c","o","n","v","e","r","t"," ",
      "m","y"," ","v","o","i","c","e"," ","i","n","t","o"," ",
      "s","o","m","e","o","n","e"," ","e","l","s","e">>

NumWords(str) ==
    IF str = <<>> THEN 0 ELSE 1 + Cardinality({i \in DOMAIN str : str[i] = " "})

\* ------------------------------------------- the Hugging Face fallback
HF_TIMEOUT_MS == 5000
HF_LABELS == {"software development", "code programming", "audio voice",
              "video animation", "image vision", "reasoning math",
              "text embedding search", "classification", "data extraction",
              "chat conversation"}
LABEL_TO_TASK ==
    [l \in HF_LABELS |->
        CASE l = "software development" -> "development"
          [] l = "code programming" -> "code"
          [] l = "audio voice" -> "audio"
          [] l = "video animation" -> "video"
          [] l = "image vision" -> "vision"
          [] l = "reasoning math" -> "reasoning"
          [] l = "text embedding search" -> "embedding"
          [] l = "classification" -> "classification"
          [] l = "data extraction" -> "extraction"
          [] l = "chat conversation" -> "chat"]
\* the first label of a response: one of HF_LABELS, a string that is no key
\* of LABEL_TO_TASK, or a name every object inherits
RemoteLabels == HF_LABELS \cup {"something else", "constructor"}
Null == "null"
Thrown == "thrown"
\* LABEL_TO_TASK[topLabel] || 'chat'
LabelToTask(topLabel) ==
    IF topLabel \in HF_LABELS THEN LABEL_TO_TASK[topLabel]
    ELSE IF topLabel = "constructor" THEN "function Object"
    ELSE "chat"
\* the body of the try block, given how the request ended
HfTry(outcome, topLabel) ==
    CASE outcome \in {"net_error", "timeout"} -> Thrown   \* await fetch rejects
      [] outcome = "bad_status" -> Null                   \* !response.ok
      [] outcome = "bad_json" -> Thrown                   \* response.json() rejects
      [] outcome = "null_body" -> Thrown                  \* result.labels of null
      [] outcome \in {"no_labels", "empty_labels"} -> Null
      [] outcome = "labels" -> LabelToTask(topLabel)
\* the try block without its catch
HfCatchNothing(v) == v
\* catch { }, then return null
HfCatch(v) == IF v = Thrown THEN Null ELSE v
HfOutcomes == {"net_error", "bad_status", "bad_json", "null_body", "no_labels",
               "empty_labels", "labels"}
\* the state of a classifier call: not made, made through classifyTaskSync,
\* awaiting the remote service, returned, or ended by an exception
NoCall == [pc |-> "none", consulted |-> FALSE, timeout |-> NO_TIMEOUT,
           outcome |-> "none", answer |-> Null]
\* classifyTask after classifyWithHuggingFace resolved with hfResult
Adopt(kw, hfResult) ==
    IF hfResult # Null
    THEN [kw EXCEPT !.taskType = hfResult, !.usedFallback = TRUE]
    ELSE kw

\* InsightType
INSIGHT_TYPES == {"warning", "opportunity", "prediction", "benchmark", "action"}

\* ------------------------------------------------------ the resolvers
NoRequest == [tool |-> "none"]
NoResponse == [kind |-> "none"]


\* JavaScript numbers: a finite value (an integer, in the unit of its field),
\* NaN, or an infinity
Fin(n) == [t |-> "finite", v |-> n]
NaN == [t |-> "NaN", v |-> 0]
PosInfinity == [t |-> "Infinity", v |-> 0]
NegInfinity == [t |-> "-Infinity", v |-> 0]
IsFinite(x) == x.t = "finite"
\* what a property read yields for a key an object does not have
Undefined == [undefined |-> TRUE]
\* names every object literal and every JSON.parse result inherits from
\* Object.prototype: obj[name] is a function, which is truthy
InheritedNames == {"constructor"}
Inherited == [inherited |-> TRUE]

\* Math.round(n / d) for d > 0: halves go up
RoundDiv(n, d) == (2 * n + d) \div (2 * d)
\* Math.round(n / d) as a JavaScript number, d >= 0
RoundRatio(n, d) ==
    IF d # 0 THEN Fin(RoundDiv(n, d))
    ELSE IF n = 0 THEN NaN
    ELSE IF n > 0 THEN PosInfinity ELSE NegInfinity

\* a stable sort, ascending by key
InsertByKey(sorted, e) ==
    LET k == Cardinality({i \in DOMAIN sorted : sorted[i].key <= e.key})
    IN SubSeq(sorted, 1, k) \o <<e>> \o SubSeq(sorted, k + 1, Len(sorted))
RECURSIVE SortByKeyFrom(_, _, _)
SortByKeyFrom(entries, i, sorted) ==
    IF i > Len(entries) THEN sorted
    ELSE SortByKeyFrom(entries, i + 1, InsertByKey(sorted, entries[i]))
SortByKey(entries) == SortByKeyFrom(entries, 1, <<>>)
\* Array.prototype.slice(0, n)
Slice(seq, n) == SubSeq(seq, 1, IF Len(seq) < n THEN Len(seq) ELSE n)
\* pricing/openai.json and pricing/anthropic.json as the updater writes them:
\* prices in cents per million tokens, in file order
OPENAI_PRICING == <<
    [name |-> "gpt-4o", input_per_million |-> 250, output_per_million |-> 1000, category |-> "flagship"],
    [name |-> "gpt-4o-mini", input_per_million |-> 15, output_per_million |-> 60, category |-> "cost-optimized"],
    [name |-> "gpt-4-turbo", input_per_million |-> 1000, output_per_million |-> 3000, category |-> "flagship"],
    [name |-> "o1", input_per_million |-> 1500, output_per_million |-> 6000, category |-> "reasoning"],
    [name |-> "o1-mini", input_per_million |-> 300, output_per_million |-> 1200, category |-> "reasoning"] >>
ANTHROPIC_PRICING == <<
    [name |-> "claude-3-5-sonnet-20241022", input_per_million |-> 300, output_per_million |-> 1500, category |-> "flagship"],
    [name |-> "claude-3-5-haiku-20241022", input_per_million |-> 80, output_per_million |-> 400, category |-> "speed"],
    [name |-> "claude-3-opus-20240229", input_per_million |-> 1500, output_per_million |-> 7500, category |-> "premium"],
    [name |-> "claude-3-sonnet-20240229", input_per_million |-> 300, output_per_million |-> 1500, category |-> "balanced"],
    [name |-> "claude-3-haiku-20240307", input_per_million |-> 25, output_per_million |-> 125, category |-> "speed"] >>
Keys(pricing) == {pricing[i].name : i \in DOMAIN pricing}
\* pricing[model]
Lookup(pricing, model) ==
    IF model \in Keys(pricing)
    THEN pricing[CHOOSE i \in DOMAIN pricing : pricing[i].name = model]
    ELSE IF model \in InheritedNames THEN Inherited
    ELSE Undefined
\* the value of a numeric property in arithmetic: undefined becomes NaN
PriceOf(entry, field) ==
    IF field \in DOMAIN entry THEN Fin(entry[field]) ELSE NaN

\* token counts a request can carry
TokenCounts == {n * 500 : n \in 0..MaxTokenSteps}

\* a total that leaves the output tokens out
InputCostOnly(inputTokens, outputTokens, inputPrice, outputPrice) ==
    LET c == IF IsFinite(inputPrice)
             THEN Fin(RoundDiv(inputTokens * inputPrice.v, 10000)) ELSE NaN
    IN [inputCost |-> c, outputCost |-> Fin(0), totalCost |-> c]
\* calculateAIModelCost: costs in units of 0.0001 USD, rounded to that unit
calculateAIModelCost(inputTokens, outputTokens, inputPrice, outputPrice) ==
    [inputCost |-> IF IsFinite(inputPrice)
                   THEN Fin(RoundDiv(inputTokens * inputPrice.v, 10000)) ELSE NaN,
     outputCost |-> IF IsFinite(outputPrice)
                    THEN Fin(RoundDiv(outputTokens * outputPrice.v, 10000)) ELSE NaN,
     totalCost |-> IF IsFinite(inputPrice) /\ IsFinite(outputPrice)
                   THEN Fin(RoundDiv(inputTokens * inputPrice.v
                                     + outputTokens * outputPrice.v, 10000))
                   ELSE NaN]


\* the alternatives of a token-cost result: every entry of the catalog whose
\* name differs from `model`, priced, sorted by cost, the first three
NUM_ALTERNATIVES == 3
AlternativesOf(pricing, model, inputTokens, outputTokens) ==
    LET others == SelectSeq(pricing, LAMBDA p : p.name # model)
        priced == [i \in DOMAIN others |->
                     LET c == calculateAIModelCost(inputTokens, outputTokens,
                                  PriceOf(others[i], "input_per_million"),
                                  PriceOf(others[i], "output_per_million")).totalCost
                     IN [model |-> others[i].name, cost |-> c, key |-> c.v]]
    IN Slice(SortByKey(priced), NUM_ALTERNATIVES)
\* alternatives.map(...): the percentage in whyNot and the cost difference
DescribeAlternative(a, totalCost) ==
    [option |-> a.model,
     cost |-> a.cost,
     percent |-> IF ~IsFinite(totalCost) THEN NaN
                 ELSE IF a.cost.v < totalCost.v
                      THEN RoundRatio(100 * (totalCost.v - a.cost.v), totalCost.v)
                      ELSE RoundRatio(100 * (a.cost.v - totalCost.v), totalCost.v),
     costDifference |-> IF IsFinite(totalCost) THEN Fin(a.cost.v - totalCost.v) ELSE NaN]
\* the type tags of generateModelInsights(model, monthlyTokens, monthlyCost,
\* alternatives), costs in 0.0001 USD; no catalog name of an alias or of an
\* unknown identifier includes 'mini'
generateModelInsights(model, monthlyTokens, monthlyCost, alternatives) ==
    {"opportunity" : i \in {j \in DOMAIN alternatives :
                               IsFinite(monthlyCost)
                                 /\ 10 * alternatives[j].cost.v < 7 * monthlyCost.v}}
      \cup (IF monthlyTokens > 10000000 THEN {"opportunity"} ELSE {})
      \cup (IF monthlyTokens > 50000000
               /\ model \in {"gpt-4o-mini", "o1-mini"} THEN {"warning"} ELSE {})
      \cup (IF IsFinite(monthlyCost) /\ monthlyCost.v > 50000000
            THEN {"benchmark"} ELSE {})
\* the AIModelCostResult of a resolved model
CostResult(tool, pricing, model, entry, inputTokens, outputTokens) ==
    LET cost == calculateAIModelCost(inputTokens, outputTokens,
                    PriceOf(entry, "input_per_million"),
                    PriceOf(entry, "output_per_million"))
        alternatives == AlternativesOf(pricing, model, inputTokens, outputTokens)
    IN [kind |-> "ok", tool |-> tool, model |-> model,
        totalCost |-> cost.totalCost, inputCost |-> cost.inputCost,
        outputCost |-> cost.outputCost,
        insights |-> generateModelInsights(model, inputTokens + outputTokens,
                                           cost.totalCost, alternatives),
        alternatives |-> [i \in DOMAIN alternatives |->
                             DescribeAlternative(alternatives[i], cost.totalCost)]]
\* throw new Error(`Unknown ... model: ${model}. Available: ${...}`)
UnknownModel(tool, model, available) ==
    [kind |-> "error", tool |-> tool, names |-> model, lists |-> available]

\* estimateOpenAICost(model, inputTokens, outputTokens)
estimateOpenAICost(model, inputTokens, outputTokens) ==
    LET pricing == Lookup(OPENAI_PRICING, model)
    IN IF pricing = Undefined
       THEN UnknownModel("estimateOpenAICost", model, Keys(OPENAI_PRICING))
       ELSE CostResult("estimateOpenAICost", OPENAI_PRICING, model, pricing,
                       inputTokens, outputTokens)

\* modelAliases of estimateAnthropicCost
MODEL_ALIASES ==
    [a \in {"claude-3-5-sonnet", "claude-3.5-sonnet", "claude-3-5-haiku",
            "claude-3.5-haiku", "claude-3-opus", "claude-3-sonnet",
            "claude-3-haiku", "claude-2", "claude-instant", "sonnet", "haiku",
            "opus"} |->
        CASE a \in {"claude-3-5-sonnet", "claude-3.5-sonnet", "sonnet"} -> "claude-3-5-sonnet-20241022"
          [] a \in {"claude-3-5-haiku", "claude-3.5-haiku", "haiku"} -> "claude-3-5-haiku-20241022"
          [] a \in {"claude-3-opus", "opus"} -> "claude-3-opus-20240229"
          [] a = "claude-3-sonnet" -> "claude-3-sonnet-20240229"
          [] a = "claude-3-haiku" -> "claude-3-haiku-20240307"
          [] a = "claude-2" -> "claude-2.1"
          [] a = "claude-instant" -> "claude-instant-1.2"]
\* model identifiers a request can carry: catalog names, aliases (one of them
\* capitalised), names no catalog has, and an inherited property name
OpenAIModelIds == Keys(OPENAI_PRICING) \cup {"gpt-5"} \cup InheritedNames
AnthropicModelIds ==
    Keys(ANTHROPIC_PRICING)
        \cup {"claude-3-5-sonnet", "haiku", "Sonnet", "claude-2", "claude-9"}
        \cup InheritedNames
\* String.prototype.toLowerCase on the identifiers above
LowerCaseId(model) == IF model = "Sonnet" THEN "sonnet" ELSE model
\* modelAliases[model.toLowerCase()] || model
ResolveAlias(model) ==
    LET lower == LowerCaseId(model)
    IN IF lower \in DOMAIN MODEL_ALIASES THEN MODEL_ALIASES[lower]
       ELSE IF lower \in InheritedNames THEN "function Object() { [native code] }"
       ELSE model

\* .filter(([name]) => name !== model)
Excluded(model, resolvedModel) == model

\* estimateAnthropicCost(model, inputTokens, outputTokens)
estimateAnthropicCost(model, inputTokens, outputTokens) ==
    LET resolvedModel == ResolveAlias(model)
        pricing == Lookup(ANTHROPIC_PRICING, resolvedModel)
    IN IF pricing = Undefined
       THEN UnknownModel("estimateAnthropicCost", model, Keys(ANTHROPIC_PRICING))
       ELSE LET r == CostResult("estimateAnthropicCost", ANTHROPIC_PRICING,
                                Excluded(model, resolvedModel), pricing,
                                inputTokens, outputTokens)
            \* batchCost < totalCost, batch_discount || 0.5: the batch insight
            IN [r EXCEPT !.model = model,
                         !.insights = IF IsFinite(r.totalCost) /\ r.totalCost.v > 0
                                      THEN r.insights \cup {"opportunity"}
                                      ELSE r.insights]


\* getAllAIModels(): { ...openaiPricing, ...anthropicPricing }
AllAIModels == OPENAI_PRICING \o ANTHROPIC_PRICING
\* categoryQuality of handleModelSwitchSavings
CATEGORY_QUALITY ==
    [c \in {"flagship", "flagship-efficient", "premium", "reasoning", "balanced",
            "code", "efficient", "speed", "realtime"} |->
        CASE c = "flagship" -> 95
          [] c = "flagship-efficient" -> 92
          [] c = "premium" -> 96
          [] c = "reasoning" -> 98
          [] c = "balanced" -> 90
          [] c = "code" -> 92
          [] c = "efficient" -> 82
          [] c = "speed" -> 75
          [] c = "realtime" -> 85]
DEFAULT_QUALITY == 80
NAMED_QUALITY == 95
\* name.includes(part) for the catalog names
NameIncludes(name, part) ==
    CASE part = "gpt-4" -> name \in {"gpt-4o", "gpt-4o-mini", "gpt-4-turbo"}
      [] part = "opus" -> name = "claude-3-opus-20240229"
      [] part = "sonnet" -> name \in {"claude-3-5-sonnet-20241022", "claude-3-sonnet-20240229"}
      [] part = "mini" -> name \in {"gpt-4o-mini", "o1-mini"}
      [] part = "haiku" -> name \in {"claude-3-5-haiku-20241022", "claude-3-haiku-20240307"}
      [] part = "flash" -> FALSE
\* the quality inferred for a catalog entry
QualityOf(specs) ==
    IF specs.category \in DOMAIN CATEGORY_QUALITY THEN CATEGORY_QUALITY[specs.category]
    ELSE IF NameIncludes(specs.name, "gpt-4") \/ NameIncludes(specs.name, "opus")
            \/ NameIncludes(specs.name, "sonnet") THEN NAMED_QUALITY
    ELSE DEFAULT_QUALITY
\* modelData: blended cost in quarter cents per million tokens (0.75 input,
\* 0.25 output); entries without an input price are left out
ModelData ==
    LET priced == SelectSeq(AllAIModels, LAMBDA m : m.input_per_million # 0)
    IN [i \in DOMAIN priced |->
          [name |-> priced[i].name,
           cost |-> 3 * priced[i].input_per_million + priced[i].output_per_million,
           quality |-> QualityOf(priced[i])]]
\* { highest: 95, high: 88, medium: 80, acceptable: 70 }[qualityRequirement] || 80
MinQuality(qualityRequirement) ==
    CASE qualityRequirement = "highest" -> 95
      [] qualityRequirement = "high" -> 88
      [] qualityRequirement = "medium" -> 80
      [] qualityRequirement = "acceptable" -> 70
QualityRequirements == {"highest", "high", "medium", "acceptable"}
MAX_SWITCH_ALTERNATIVES == 5

\* the savings filter without its strictness
SavesNothingAllowed(a) == IsFinite(a.savings) /\ a.savings.v >= 0
\* .filter(a => a.savings > 0)
Saves(a) == IsFinite(a.savings) /\ a.savings.v > 0

\* handleModelSwitchSavings(args): monthly costs in quarter cents per million
\* of a token
handleModelSwitchSavings(currentModel, monthlyTokens, qualityRequirement) ==
    LET current == Lookup(ModelData, currentModel)
        tool == "handleModelSwitchSavings"
    IN IF current = Undefined
       THEN UnknownModel(tool, currentModel, {})
       ELSE
         LET currentCost == PriceOf(current, "cost")
             currentMonthlyCost ==
                 IF IsFinite(currentCost) THEN Fin(monthlyTokens * currentCost.v) ELSE NaN
             minQuality == MinQuality(qualityRequirement)
             eligible == SelectSeq(ModelData,
                            LAMBDA d : d.quality >= minQuality /\ d.name # currentModel)
             mapped == [i \in DOMAIN eligible |->
                          LET s == IF IsFinite(currentMonthlyCost)
                                   THEN Fin(currentMonthlyCost.v - monthlyTokens * eligible[i].cost)
                                   ELSE NaN
                          IN [model |-> eligible[i].name,
                              monthlyCost |-> Fin(monthlyTokens * eligible[i].cost),
                              savings |-> s,
                              quality |-> eligible[i].quality,
                              key |-> 0 - s.v]]
             alternatives == SortByKey(SelectSeq(mapped, Saves))
         IN [kind |-> "ok", tool |-> tool, model |-> currentModel,
             currentMonthlyCost |-> currentMonthlyCost,
             minQuality |-> minQuality,
             bestAlternative |-> IF alternatives # <<>> THEN alternatives[1] ELSE Undefined,
             insights |-> {IF alternatives # <<>> THEN "opportunity" ELSE "benchmark",
                           "action"},
             allAlternatives |-> Slice(alternatives, MAX_SWITCH_ALTERNATIVES)]
SwitchModelIds == Keys(AllAIModels) \cup {"sonnet", "gpt-5"} \cup InheritedNames


\* pricing/aws_compute.json, azure_compute.json and gcp_compute.json: family,
\* then key, then the instance (hourly rate in 0.0001 USD), as the updater
\* writes them, beside the discount table estimateComputeCost reads from the
\* same object; names are sequences of characters
COMPUTE_PRICING == [
    aws |-> <<
        [family |-> <<"t", "3">>, key |-> <<"m", "i", "c", "r", "o">>,
         value |-> [hourly_rate |-> 104, vcpu |-> 2, memory_gb |-> 1]],
        [family |-> <<"t", "3">>, key |-> <<"m", "e", "d", "i", "u", "m">>,
         value |-> [hourly_rate |-> 416, vcpu |-> 2, memory_gb |-> 4]],
        [family |-> <<"t", "3">>, key |-> <<"l", "a", "r", "g", "e">>,
         value |-> [hourly_rate |-> 832, vcpu |-> 2, memory_gb |-> 8]],
        [family |-> <<"m", "6", "i">>, key |-> <<"l", "a", "r", "g", "e">>,
         value |-> [hourly_rate |-> 960, vcpu |-> 2, memory_gb |-> 8]],
        [family |-> <<"r", "e", "s", "e", "r", "v", "e", "d", "_", "d", "i", "s", "c", "o", "u", "n", "t", "s">>,
         key |-> <<"1", "_", "y", "e", "a", "r">>, value |-> [percent |-> 30]] >>,
    azure |-> <<
        [family |-> <<"B">>, key |-> <<"B", "1", "s">>,
         value |-> [hourly_rate |-> 104, vcpu |-> 1, memory_gb |-> 1]],
        [family |-> <<"B">>, key |-> <<"B", "2", "m", "s">>,
         value |-> [hourly_rate |-> 832, vcpu |-> 2, memory_gb |-> 8]],
        [family |-> <<"D">>, key |-> <<"D", "2", "s", "_", "v", "5">>,
         value |-> [hourly_rate |-> 960, vcpu |-> 2, memory_gb |-> 8]],
        [family |-> <<"r", "e", "s", "e", "r", "v", "e", "d", "_", "d", "i", "s", "c", "o", "u", "n", "t", "s">>,
         key |-> <<"1", "_", "y", "e", "a", "r">>, value |-> [percent |-> 30]] >>,
    gcp |-> <<
        [family |-> <<"e", "2">>, key |-> <<"e", "2", "-", "m", "i", "c", "r", "o">>,
         value |-> [hourly_rate |-> 84, vcpu |-> 1, memory_gb |-> 1]],
        [family |-> <<"e", "2">>, key |-> <<"e", "2", "-", "m", "e", "d", "i", "u", "m">>,
         value |-> [hourly_rate |-> 336, vcpu |-> 1, memory_gb |-> 4]],
        [family |-> <<"e", "2">>, key |-> <<"e", "2", "-", "s", "t", "a", "n", "d", "a", "r", "d", "-", "2">>,
         value |-> [hourly_rate |-> 672, vcpu |-> 2, memory_gb |-> 8]],
        [family |-> <<"n", "2">>, key |-> <<"n", "2", "-", "s", "t", "a", "n", "d", "a", "r", "d", "-", "2">>,
         value |-> [hourly_rate |-> 971, vcpu |-> 2, memory_gb |-> 8]],
        [family |-> <<"c", "o", "m", "m", "i", "t", "t", "e", "d", "_", "u", "s", "e", "_", "d", "i", "s", "c", "o", "u", "n", "t", "s">>,
         key |-> <<"1", "_", "y", "e", "a", "r">>, value |-> [percent |-> 30]] >> ]
Providers == {"aws", "azure", "gcp"}
\* instance types a request can carry, for every naming convention, with
\* some that name no instance
InstanceTypeIds == {
    <<"t", "3", ".", "l", "a", "r", "g", "e">>,
    <<"t", "3", ".", "m", "e", "d", "i", "u", "m">>,
    <<"m", "6", "i", ".", "l", "a", "r", "g", "e">>,
    <<"B", "2", "m", "s">>,
    <<"D", "2", "s", "_", "v", "5">>,
    <<"e", "2", "-", "m", "e", "d", "i", "u", "m">>,
    <<"e", "2", "-", "s", "t", "a", "n", "d", "a", "r", "d", "-", "2">>,
    <<"n", "2", "-", "s", "t", "a", "n", "d", "a", "r", "d", "-", "2">>,
    <<"c", "5", ".", "l", "a", "r", "g", "e">>,
    <<"m", "e", "d", "i", "u", "m">>,
    <<"t", "3">>,
    <<"r", "e", "s", "e", "r", "v", "e", "d", "_", "d", "i", "s", "c", "o", "u", "n", "t", "s", ".", "1", "_", "y", "e", "a", "r">>,
    <<"c", "o", "n", "s", "t", "r", "u", "c", "t", "o", "r", ".", "n", "a", "m", "e">> }
InheritedFamily == <<"c","o","n","s","t","r","u","c","t","o","r">>
InheritedKey == <<"n","a","m","e">>
DIGITS == {"0", "1", "2", "3", "4", "5", "6", "7", "8", "9"}
\* positions of a separator
PositionsOf(str, sep) == {i \in DOMAIN str : str[i] = sep}
Least(S) == CHOOSE i \in S : \A j \in S : i <= j
\* str.split(sep)[0]
FirstPart(str, sep) ==
    IF PositionsOf(str, sep) = {} THEN str
    ELSE SubSeq(str, 1, Least(PositionsOf(str, sep)) - 1)
\* str.split(sep)[1]; the empty sequence stands for undefined, falsy like ''
SecondPart(str, sep) ==
    LET at == PositionsOf(str, sep)
    IN IF at = {} THEN <<>>
       ELSE LET first == Least(at)
                later == at \ {first}
            IN SubSeq(str, first + 1,
                      IF later = {} THEN Len(str) ELSE Least(later) - 1)
\* str.split(sep).slice(1).join(sep)
RestAfter(str, sep) ==
    IF PositionsOf(str, sep) = {} THEN <<>>
    ELSE SubSeq(str, Least(PositionsOf(str, sep)) + 1, Len(str))
\* str.replace(/[0-9].*/, '')
BeforeFirstDigit(str) ==
    LET at == {i \in DOMAIN str : str[i] \in DIGITS}
    IN IF at = {} THEN str ELSE SubSeq(str, 1, Least(at) - 1)
\* str.charAt(0)
CharAt0(str) == IF str = <<>> THEN <<>> ELSE SubSeq(str, 1, 1)
\* parsingStrategies
ParsingStrategies(instanceType) == <<
    [family |-> FirstPart(instanceType, "."), key |-> SecondPart(instanceType, ".")],
    [family |-> BeforeFirstDigit(instanceType), key |-> instanceType],
    [family |-> FirstPart(instanceType, "-"), key |-> instanceType],
    [family |-> CharAt0(instanceType), key |-> instanceType],
    [family |-> FirstPart(instanceType, "-"), key |-> RestAfter(instanceType, "-")] >>
\* pricing[family][key]
FamilyLookup(provider, family, key) ==
    LET pricing == COMPUTE_PRICING[provider]
        hits == {i \in DOMAIN pricing : pricing[i].family = family /\ pricing[i].key = key}
    IN IF hits # {} THEN pricing[CHOOSE i \in hits : TRUE].value
       ELSE IF family = InheritedFamily /\ key = InheritedKey THEN Inherited
       ELSE Undefined
\* familyPricing && strategy.key && familyPricing[strategy.key]
Matches(provider, strategy) ==
    /\ strategy.key # <<>>
    /\ FamilyLookup(provider, strategy.family, strategy.key) # Undefined
\* the loop over parsingStrategies: the index it breaks at, 0 if it never does
FoundAt(provider, instanceType) ==
    LET strategies == ParsingStrategies(instanceType)
        ok == {k \in DOMAIN strategies : Matches(provider, strategies[k])}
    IN IF ok = {} THEN 0 ELSE Least(ok)
\* calculateComputeCost with region multiplier 1.0: hourly in 0.0001 USD,
\* monthly in cents
calculateComputeCost(hourlyRate, hours) ==
    IF IsFinite(hourlyRate)
    THEN [hourly |-> Fin(hourlyRate.v), monthly |-> Fin(RoundDiv(hourlyRate.v * hours, 100))]
    ELSE [hourly |-> NaN, monthly |-> NaN]
\* the type tags of generateComputeInsights(provider, instanceType,
\* monthlyCost), called without a utilization; monthlyCost in cents, and no
\* instance type of the model includes 'batch' or 'worker'
generateComputeInsights(monthlyCost) ==
    IF IsFinite(monthlyCost) /\ monthlyCost.v > 20000 THEN {"opportunity"} ELSE {}
\* throw new Error(`Unknown instance type: ${instanceType} for ${provider}`)
UnknownInstance(provider, instanceType) ==
    [kind |-> "error", tool |-> "estimateComputeCost", names |-> instanceType,
     provider |-> provider]
\* estimateComputeCost(provider, instanceType, hours), region left at
\* 'us-east-1' with multiplier 1.0
estimateComputeCost(provider, instanceType, hours) ==
    LET k == FoundAt(provider, instanceType)
    IN IF k = 0 THEN UnknownInstance(provider, instanceType)
       ELSE LET strategy == ParsingStrategies(instanceType)[k]
                instance == FamilyLookup(provider, strategy.family, strategy.key)
                cost == calculateComputeCost(PriceOf(instance, "hourly_rate"), hours)
            IN [kind |-> "ok", tool |-> "estimateComputeCost", provider |-> provider,
                instanceType |-> instanceType,
                hourlyCost |-> cost.hourly, monthlyCost |-> cost.monthly,
                insights |-> generateComputeInsights(cost.monthly)]
HoursOfUse == {0, 100, 730}


\* instanceMappings of compareCloudCost
InstanceMappings == <<
    [from |-> <<"t", "3", ".", "m", "i", "c", "r", "o">>,
     to |-> [aws |-> <<"t", "3", ".", "m", "i", "c", "r", "o">>, azure |-> <<"B", "1", "s">>, gcp |-> <<"e", "2", "-", "m", "i", "c", "r", "o">>]],
    [from |-> <<"t", "3", ".", "s", "m", "a", "l", "l">>,
     to |-> [aws |-> <<"t", "3", ".", "s", "m", "a", "l", "l">>, azure |-> <<"B", "1", "m", "s">>, gcp |-> <<"e", "2", "-", "s", "m", "a", "l", "l">>]],
    [from |-> <<"t", "3", ".", "m", "e", "d", "i", "u", "m">>,
     to |-> [aws |-> <<"t", "3", ".", "m", "e", "d", "i", "u", "m">>, azure |-> <<"B", "2", "m", "s">>, gcp |-> <<"e", "2", "-", "m", "e", "d", "i", "u", "m">>]],
    [from |-> <<"t", "3", ".", "l", "a", "r", "g", "e">>,
     to |-> [aws |-> <<"t", "3", ".", "l", "a", "r", "g", "e">>, azure |-> <<"B", "2", "m", "s">>, gcp |-> <<"e", "2", "-", "s", "t", "a", "n", "d", "a", "r", "d", "-", "2">>]],
    [from |-> <<"m", "6", "i", ".", "l", "a", "r", "g", "e">>,
     to |-> [aws |-> <<"m", "6", "i", ".", "l", "a", "r", "g", "e">>, azure |-> <<"D", "2", "s", "_", "v", "5">>, gcp |-> <<"n", "2", "-", "s", "t", "a", "n", "d", "a", "r", "d", "-", "2">>]],
    [from |-> <<"m", "6", "i", ".", "x", "l", "a", "r", "g", "e">>,
     to |-> [aws |-> <<"m", "6", "i", ".", "x", "l", "a", "r", "g", "e">>, azure |-> <<"D", "4", "s", "_", "v", "5">>, gcp |-> <<"n", "2", "-", "s", "t", "a", "n", "d", "a", "r", "d", "-", "4">>]] >>
DefaultInstanceType == <<"t", "3", ".", "m", "e", "d", "i", "u", "m">>
DEFAULT_HOURS == 730
DEFAULT_GB == 100
\* instanceMappings[instanceType] || { aws: instanceType, azure: ..., gcp: ... }
MappingOf(instanceType) ==
    LET hits == {i \in DOMAIN InstanceMappings : InstanceMappings[i].from = instanceType}
    IN IF hits # {} THEN InstanceMappings[CHOOSE i \in hits : TRUE].to
       ELSE [p \in Providers |-> instanceType]
\* the catch block: hours * 0.0416, 0.0448, 0.0386, in 0.0001 USD
EstimatedPricing(provider, hours) ==
    CASE provider = "aws" -> 416 * hours
      [] provider = "azure" -> 448 * hours
      [] provider = "gcp" -> 386 * hours
\* the compute branch: costs[provider], in 0.0001 USD
ComputeCostOf(provider, instanceType, hours) ==
    LET r == estimateComputeCost(provider, MappingOf(instanceType)[provider], hours)
    IN IF r.kind = "ok" THEN Fin(100 * r.monthlyCost.v)
       ELSE Fin(EstimatedPricing(provider, hours))
\* the storage and database branches, in 0.0001 USD
StorageCostOf(provider, gb) ==
    CASE provider = "aws" -> Fin(230 * gb)
      [] provider = "azure" -> Fin(184 * gb)
      [] provider = "gcp" -> Fin(200 * gb)
DatabaseCostOf(provider, hours, gb) ==
    CASE provider = "aws" -> Fin(170 * hours + 1150 * gb)
      [] provider = "azure" -> Fin(180 * hours + 1150 * gb)
      [] provider = "gcp" -> Fin(105 * hours + 1700 * gb)
ProviderOrder == <<"aws", "azure", "gcp">>
\* compareProviders(costs, 'web-app'): the winner and the percentage
compareProviders(costs) ==
    LET sorted == SortByKey([i \in DOMAIN ProviderOrder |->
                       [provider |-> ProviderOrder[i], key |-> costs[ProviderOrder[i]].v]])
        lowestCost == sorted[1].key
        secondLowest == sorted[2].key
    IN [winner |-> sorted[1].provider,
        percentSavings |-> IF secondLowest > 0 /\ lowestCost >= 0
                           THEN Fin(RoundDiv(100 * (secondLowest - lowestCost), secondLowest))
                           ELSE Fin(0)]
\* compareCloudCost(serviceType, usageProfile); an absent instanceType is the
\* empty sequence, absent hours and gb are 0, which `||` treats alike
compareCloudCost(serviceType, instanceTypeArg, hoursArg, gbArg) ==
    LET hours == IF hoursArg # 0 THEN hoursArg ELSE DEFAULT_HOURS
        gb == IF gbArg # 0 THEN gbArg ELSE DEFAULT_GB
        instanceType == IF instanceTypeArg # <<>> THEN instanceTypeArg
                        ELSE DefaultInstanceType
        costs == [p \in Providers |->
                    CASE serviceType = "compute" -> ComputeCostOf(p, instanceType, hours)
                      [] serviceType = "storage" -> StorageCostOf(p, gb)
                      [] serviceType = "database" -> DatabaseCostOf(p, hours, gb)]
        comparison == compareProviders(costs)
    IN [kind |-> "ok", tool |-> "compareCloudCost",
        winner |-> comparison.winner,
        percentSavings |-> comparison.percentSavings,
        monthlyCost |-> costs,
        \* usedDefaults = !instanceType && !hours && !gb adds a third insight
        insights |-> {"action", "opportunity"}
                        \cup (IF instanceTypeArg = <<>> /\ hoursArg = 0 /\ gbArg = 0
                              THEN {"tip"} ELSE {}),
        \* the providers whose figure the result marks as an estimate: the
        \* CloudComparison has no field that does
        marksEstimate |-> {}]
ServiceTypes == {"compute", "storage", "database"}
\* instance types whose estimate is a finite cost or a failure
ComparableInstanceTypes ==
    {<<>>} \cup {id \in InstanceTypeIds :
                    \A p \in Providers :
                        LET r == estimateComputeCost(p, MappingOf(id)[p], DEFAULT_HOURS)
                        IN r.kind = "ok" => IsFinite(r.monthlyCost)}
GbOfUse == {0, 50}


\* the burn before revenue
GrossBurn(monthlyBurn, monthlyRevenue) == monthlyBurn
\* const netBurn = monthlyBurn - monthlyRevenue
NetBurn(monthlyBurn, monthlyRevenue) == monthlyBurn - monthlyRevenue
\* calculateRunway(cashInBank, monthlyBurn, monthlyRevenue): runway in tenths
\* of a month, net burn in USD
calculateRunway(cashInBank, monthlyBurn, monthlyRevenue) ==
    LET netBurn == NetBurn(monthlyBurn, monthlyRevenue)
    IN IF netBurn <= 0
       THEN [runwayMonths |-> PosInfinity, netBurn |-> Fin(netBurn)]
       ELSE [runwayMonths |-> Fin(RoundDiv(10 * cashInBank, netBurn)),
             netBurn |-> Fin(netBurn)]
\* calculateBurnMultiple(monthlyBurn, newMRR) with newMRR = monthlyRevenue * 0.1:
\* the multiple in hundredths
calculateBurnMultiple(monthlyBurn, monthlyRevenue) ==
    IF monthlyRevenue <= 0
    THEN [burnMultiple |-> PosInfinity, efficiency |-> "concerning"]
    ELSE [burnMultiple |-> Fin(RoundDiv(1000 * monthlyBurn, monthlyRevenue)),
          efficiency |-> IF 10 * monthlyBurn < monthlyRevenue THEN "excellent"
                         ELSE IF 10 * monthlyBurn < 2 * monthlyRevenue THEN "good"
                         ELSE IF 10 * monthlyBurn < 3 * monthlyRevenue THEN "fair"
                         ELSE "concerning"]
\* Math.max(1, Math.floor(runwayMonths - lead))
DecisionMonth(runwayMonths, lead) ==
    IF ~IsFinite(runwayMonths) THEN runwayMonths
    ELSE LET m == (runwayMonths.v - 10 * lead) \div 10
         IN Fin(IF m > 1 THEN m ELSE 1)
FUNDRAISING_LEAD == 6
CRITICAL_LEAD == 3
CRITICAL_RUNWAY == 6
SHORT_RUNWAY == 12
\* (monthlyBurn * 0.2) / monthlyBurn * runwayMonths, in tenths of a month
BurnReductionImpact(runwayMonths, monthlyBurn) ==
    IF monthlyBurn = 0 THEN NaN
    ELSE IF ~IsFinite(runwayMonths) THEN runwayMonths
    ELSE Fin(runwayMonths.v \div 5)
\* generateRunwayInsights(runwayMonths, monthlyBurn, growthRate) at the default
\* growth rate 0.1, which adds no prediction; impacts in cents
generateRunwayInsights(runwayMonths, monthlyBurn) ==
    LET warning ==
            IF IsFinite(runwayMonths) /\ runwayMonths.v < 10 * CRITICAL_RUNWAY
            THEN <<[type |-> "warning", message |-> "critical", impact |-> Undefined]>>
            ELSE IF IsFinite(runwayMonths) /\ runwayMonths.v < 10 * SHORT_RUNWAY
            THEN <<[type |-> "warning", message |-> "below 12 months", impact |-> Undefined]>>
            ELSE <<>>
        reduction == BurnReductionImpact(runwayMonths, monthlyBurn)
        action ==
            IF reduction = PosInfinity \/ (IsFinite(reduction) /\ 10 * runwayMonths.v > 1000)
            THEN <<[type |-> "action", message |-> "cutting costs by 20%",
                    impact |-> IF IsFinite(runwayMonths)
                               THEN Fin(2 * monthlyBurn * runwayMonths.v)
                               ELSE runwayMonths]>>
            ELSE <<>>
    IN warning \o action
\* forecastRunway(monthlyInfraCost, monthlyRevenue, cashInBank) at the default
\* growth rate; burnRate.projected, a product of finite numbers, is left out
forecastRunway(monthlyInfraCost, monthlyRevenue, cashInBank) ==
    LET runway == calculateRunway(cashInBank, monthlyInfraCost, monthlyRevenue)
        burn == calculateBurnMultiple(monthlyInfraCost - monthlyRevenue, monthlyRevenue)
    IN [kind |-> "ok", tool |-> "forecastRunway",
        runwayMonths |-> runway.runwayMonths,
        netBurn |-> runway.netBurn,
        decisionPoints |-> <<DecisionMonth(runway.runwayMonths, FUNDRAISING_LEAD),
                             DecisionMonth(runway.runwayMonths, CRITICAL_LEAD)>>,
        burnMultiple |-> burn.burnMultiple,
        efficiency |-> burn.efficiency,
        insights |-> generateRunwayInsights(runway.runwayMonths, monthlyInfraCost)]
\* monthly amounts and cash balances a request can carry, in USD
MonthlyAmounts == {0, 500, 1000, 2000, 5000, 10000}
CashBalances == {0, 6000, 50000, 200000}


\* the tiers handleDatabaseTierRecommendation works on: for supabase and
\* mongodb the plans of pricing/saas_tools.json as the updater writes them,
\* mapped to {name, cost, limits.storage}; for neon and planetscale, which
\* the catalog lacks, fallbackTiers. Storage in tenths of a GB; a plan whose
\* size is 'custom' or absent has no number there
Custom == [custom |-> TRUE]
DATABASE_PLANS == [
    supabase |-> <<
        [name |-> "free", cost |-> 0, storage |-> Fin(5)],
        [name |-> "pro", cost |-> 25, storage |-> Fin(80)],
        [name |-> "team", cost |-> 599, storage |-> Custom] >>,
    mongodb |-> <<
        [name |-> "m0_free", cost |-> 0, storage |-> Fin(5)],
        [name |-> "m10", cost |-> 57, storage |-> Fin(100)],
        [name |-> "m20", cost |-> 140, storage |-> Fin(200)],
        [name |-> "m30", cost |-> 280, storage |-> Fin(400)],
        [name |-> "m40", cost |-> 455, storage |-> Fin(800)],
        [name |-> "m50", cost |-> 698, storage |-> Fin(1600)],
        [name |-> "serverless", cost |-> 0, storage |-> Undefined] >>,
    neon |-> <<>>,
    planetscale |-> <<>> ]
FALLBACK_TIERS == [
    supabase |-> <<
        [name |-> "free", cost |-> 0, storage |-> Fin(5)],
        [name |-> "pro", cost |-> 25, storage |-> Fin(80)],
        [name |-> "team", cost |-> 599, storage |-> Fin(1000)] >>,
    mongodb |-> <<
        [name |-> "m0", cost |-> 0, storage |-> Fin(5)],
        [name |-> "m10", cost |-> 57, storage |-> Fin(100)],
        [name |-> "m20", cost |-> 140, storage |-> Fin(200)],
        [name |-> "m30", cost |-> 280, storage |-> Fin(400)] >>,
    neon |-> <<
        [name |-> "free", cost |-> 0, storage |-> Fin(5)],
        [name |-> "launch", cost |-> 19, storage |-> Fin(100)],
        [name |-> "scale", cost |-> 69, storage |-> Fin(500)] >>,
    planetscale |-> <<
        [name |-> "hobby", cost |-> 0, storage |-> Fin(50)],
        [name |-> "scaler", cost |-> 29, storage |-> Fin(100)],
        [name |-> "scaler_pro", cost |-> 39, storage |-> Fin(500)] >> ]
DatabaseProviders == {"supabase", "mongodb", "neon", "planetscale"}
\* tiers: the catalog's plans sorted by cost, or the fallback list as written
TiersOf(provider) ==
    IF DATABASE_PLANS[provider] # <<>>
    THEN SortByKey([i \in DOMAIN DATABASE_PLANS[provider] |->
                      [name |-> DATABASE_PLANS[provider][i].name,
                       cost |-> DATABASE_PLANS[provider][i].cost,
                       storage |-> DATABASE_PLANS[provider][i].storage,
                       key |-> DATABASE_PLANS[provider][i].cost]])
    ELSE [i \in DOMAIN FALLBACK_TIERS[provider] |->
            [name |-> FALLBACK_TIERS[provider][i].name,
             cost |-> FALLBACK_TIERS[provider][i].cost,
             storage |-> FALLBACK_TIERS[provider][i].storage,
             key |-> FALLBACK_TIERS[provider][i].cost]]
\* t.limits.storage >= storageGb
Holds(tier, storageGb) == "v" \in DOMAIN tier.storage /\ tier.storage.v >= storageGb
\* tiers.find(t => t.limits.storage >= storageGb) || tiers[tiers.length - 1]
FindTier(tiers, storageGb) ==
    LET fits == {i \in DOMAIN tiers : Holds(tiers[i], storageGb)}
    IN IF fits # {} THEN tiers[Least(fits)] ELSE tiers[Len(tiers)]
\* ((limit - usage) / limit) * 100, rounded for growthBuffer
Headroom(tier, storageGb) ==
    IF "v" \in DOMAIN tier.storage
    THEN RoundRatio(100 * (tier.storage.v - storageGb), tier.storage.v)
    ELSE NaN
\* handleDatabaseTierRecommendation(args), for the current usage
handleDatabaseTierRecommendation(provider, storageGb) ==
    LET tiers == TiersOf(provider)
        currentBestTier == FindTier(tiers, storageGb)
    IN [kind |-> "ok", tool |-> "handleDatabaseTierRecommendation",
        provider |-> provider,
        recommendedTier |-> currentBestTier.name,
        recommendedCost |-> currentBestTier.cost,
        tierLimits |-> currentBestTier.storage,
        headroom |-> Headroom(currentBestTier, storageGb),
        insights |-> {"action", "prediction"},
        \* the action insight reads `Use <tier> tier for current needs`
        \* whether or not the tier holds the usage; no field says it does not
        signalsInsufficient |-> FALSE]
\* storage in use, in tenths of a GB
StorageInUse == {1, 5, 50, 300, 2000}


\* calculateBreakEven: amounts in USD, breakEvenMonths in tenths of a month
\* (it is rounded to one decimal); a quotient n / d is kept as the pair
Abs(n) == IF n < 0 THEN 0 - n ELSE n
\* upfrontDiff / monthlyDiff < 0, monthlyDiff # 0
NegativeQuotient(upfrontDiff, monthlyDiff) ==
    \/ upfrontDiff > 0 /\ monthlyDiff < 0
    \/ upfrontDiff < 0 /\ monthlyDiff > 0
\* the quotient cut to one decimal instead of rounded
TruncatedToTenths(upfrontDiff, monthlyDiff) ==
    (10 * Abs(upfrontDiff)) \div Abs(monthlyDiff)
\* Math.round(breakEvenMonths * 10) / 10, for a quotient >= 0
RoundedToTenths(upfrontDiff, monthlyDiff) ==
    RoundDiv(10 * Abs(upfrontDiff), Abs(monthlyDiff))
\* a comparison that lets option A win whatever it costs
AlwaysA(optionA, optionB) == TRUE
\* optionA.upfront <= optionB.upfront && optionA.monthly <= optionB.monthly
ADominates(optionA, optionB) ==
    optionA.upfront <= optionB.upfront /\ optionA.monthly <= optionB.monthly
calculateBreakEven(optionA, optionB) ==
    IF optionA.monthly = optionB.monthly
    THEN IF optionA.upfront < optionB.upfront
         THEN [breakEvenMonths |-> Fin(0), recommendation |-> "A has lower upfront cost"]
         ELSE [breakEvenMonths |-> Fin(0), recommendation |-> "B has lower upfront cost"]
    ELSE LET monthlyDiff == optionA.monthly - optionB.monthly
             upfrontDiff == optionB.upfront - optionA.upfront
         IN IF NegativeQuotient(upfrontDiff, monthlyDiff)
            THEN IF ADominates(optionA, optionB)
                 THEN [breakEvenMonths |-> Null, recommendation |-> "A is always cheaper"]
                 ELSE [breakEvenMonths |-> Null, recommendation |-> "B is always cheaper"]
            ELSE [breakEvenMonths |-> Fin(RoundedToTenths(upfrontDiff, monthlyDiff)),
                  recommendation |-> "Break-even"]
\* handleBreakEvenAnalysis(args): winner is the option with the lower total
\* cost at the time horizon, option B on a tie
handleBreakEvenAnalysis(optionA, optionB, timeHorizon) ==
    LET be == calculateBreakEven(optionA, optionB)
        optionATotalCost == optionA.upfront + optionA.monthly * timeHorizon
        optionBTotalCost == optionB.upfront + optionB.monthly * timeHorizon
    IN [kind |-> "ok", tool |-> "handleBreakEvenAnalysis",
        breakEvenPoint |-> be.breakEvenMonths,
        breakEvenDescription |-> be.recommendation,
        winner |-> IF optionATotalCost < optionBTotalCost THEN "A" ELSE "B",
        savingsOverPeriod |-> Fin(Abs(optionATotalCost - optionBTotalCost)),
        insights |-> {"action", "prediction"}]
UpfrontCosts == {0, 100, 3000}
MonthlyCosts == {0, 200, 500}
TimeHorizons == {1, 24}
Options == [upfront : UpfrontCosts, monthly : MonthlyCosts]


\* bandwidthTiers of handleEstimateBandwidthCost: cumulative limit in GB,
\* rate in 0.001 USD per GB
BANDWIDTH_TIERS == [
    aws |-> << [limit |-> Fin(10000), rate |-> 90],
               [limit |-> Fin(50000), rate |-> 85],
               [limit |-> Fin(150000), rate |-> 70],
               [limit |-> PosInfinity, rate |-> 50] >>,
    azure |-> << [limit |-> Fin(5), rate |-> 0],
                 [limit |-> Fin(10000), rate |-> 87],
                 [limit |-> Fin(50000), rate |-> 83],
                 [limit |-> Fin(150000), rate |-> 70],
                 [limit |-> PosInfinity, rate |-> 50] >>,
    gcp |-> << [limit |-> Fin(1000), rate |-> 120],
               [limit |-> Fin(10000), rate |-> 110],
               [limit |-> PosInfinity, rate |-> 80] >> ]
\* a capacity that forgets what the tiers below already hold
CapacityFromZero(tier, previousLimit) == tier.limit
\* tierCapacity = tier.limit - previousLimit
TierCapacity(tier, previousLimit) ==
    IF IsFinite(tier.limit) THEN Fin(tier.limit.v - previousLimit) ELSE PosInfinity
\* Math.min(remaining, tierCapacity)
GbInTier(remaining, tierCapacity) ==
    IF IsFinite(tierCapacity) /\ tierCapacity.v < remaining THEN tierCapacity.v
    ELSE remaining
\* the loop of calculateBandwidthCost from tier i on: the breakdown entries
\* pushed and the unrounded total, in 0.001 USD; costs rounded to cents
RECURSIVE BandwidthLoop(_, _, _, _)
BandwidthLoop(tiers, i, remaining, previousLimit) ==
    IF i > Len(tiers) \/ remaining <= 0
    THEN [breakdown |-> <<>>, total |-> 0]
    ELSE LET tier == tiers[i]
             gbInTier == GbInTier(remaining, TierCapacity(tier, previousLimit))
             tierCost == gbInTier * tier.rate
             rest == BandwidthLoop(tiers, i + 1, remaining - gbInTier,
                                   IF IsFinite(tier.limit) THEN tier.limit.v ELSE 0)
             entry == [from |-> previousLimit, to |-> tier.limit, gb |-> gbInTier,
                       cost |-> RoundDiv(tierCost, 10)]
         IN [breakdown |-> IF gbInTier > 0 THEN <<entry>> \o rest.breakdown
                           ELSE rest.breakdown,
             total |-> tierCost + rest.total]
\* calculateBandwidthCost(gbTransferred, tiers): totalCost in cents
calculateBandwidthCost(gbTransferred, tiers) ==
    LET loop == BandwidthLoop(tiers, 1, gbTransferred, 0)
    IN [totalCost |-> RoundDiv(loop.total, 10), breakdown |-> loop.breakdown]
\* handleEstimateBandwidthCost(args)
handleEstimateBandwidthCost(provider, gbTransfer) ==
    LET cost == calculateBandwidthCost(gbTransfer, BANDWIDTH_TIERS[provider])
        cdnSavings == IF gbTransfer > 500 THEN 4 * cost.totalCost ELSE 0
    IN [kind |-> "ok", tool |-> "handleEstimateBandwidthCost",
        totalCost |-> Fin(cost.totalCost),
        breakdown |-> cost.breakdown,
        insights |-> {IF cdnSavings > 0 THEN "opportunity" ELSE "benchmark"}]
\* gbTransfer, in GB
TransferVolumes == {0, 3, 1001, 10001, 15000, 200000}


\* forecastCost: baseCost in USD, the growth factor 1 + growthRate as a
\* number of halves (2 for no growth, 3 for 50%, 4 for 100%), costs in cents
RECURSIVE Pow(_, _)
Pow(b, e) == IF e = 0 THEN 1 ELSE b * Pow(b, e - 1)
\* Math.round(baseCost * Math.pow(1 + growthRate, i) * 100) / 100
MonthCost(baseCost, halves, i) ==
    RoundDiv(100 * baseCost * Pow(halves, i), Pow(2, i))
RECURSIVE SpendThrough(_, _, _)
\* totalSpend += cost over months 1..i, unrounded, in units of 2^-months cent
SpendThrough(baseCost, halves, i) ==
    IF i = 0 THEN 0
    ELSE 100 * baseCost * Pow(halves, i) + 2 * SpendThrough(baseCost, halves, i - 1)
\* forecastCost(baseCost, growthRate, months)
forecastCost(baseCost, halves, months) ==
    LET projections == [i \in 1..months |->
                          [month |-> i, cost |-> MonthCost(baseCost, halves, i)]]
    IN [projectedCost |-> projections[months].cost,
        totalSpend |-> RoundDiv(SpendThrough(baseCost, halves, months), Pow(2, months)),
        projections |-> projections]
DETAILED_MONTHS == 12
\* .filter((p, i) => i > 0 && p.cost > projections[i - 1].cost * 1.5)
CostCliffs(projections) ==
    {projections[i].month : i \in
        {j \in DOMAIN projections :
            j > 1 /\ 2 * projections[j].cost > 3 * projections[j - 1].cost}}
\* handleForecastScalingCost(args)
handleForecastScalingCost(currentMonthlyCost, halves, months) ==
    LET f == forecastCost(currentMonthlyCost, halves, months)
    IN [kind |-> "ok", tool |-> "handleForecastScalingCost",
        projectedFinalCost |-> Fin(f.projectedCost),
        totalSpendOverPeriod |-> Fin(f.totalSpend),
        monthlyProjections |-> Slice(f.projections, DETAILED_MONTHS),
        costCliffWarnings |-> CostCliffs(f.projections),
        insights |-> {"prediction", "warning", "action"}]
\* requests: a monthly cost, a growth factor and a duration; the longest
\* duration only without growth, which keeps the powers small
ForecastRequests ==
    {r \in [cost : {0, 10, 1000}, halves : {2, 3, 4}, months : {1, 2, 6, 13}] :
        r.months = 13 => (r.halves = 2 /\ r.cost <= 10)}

\* ------------------------------------------------------- the sources
SourcesV2 == <<"openai", "anthropic", "aws", "azure", "gcp",
               "supabase", "vercel", "mongodb", "cloudflare">>
SourcesV1 == <<"openai", "anthropic", "aws", "azure", "gcp">>

\* the array handed to Promise.all by runPricingUpdate
Sources == IF rev = "v2" THEN SourcesV2 ELSE SourcesV1
SourceSet == {Sources[i] : i \in 1..Len(Sources)}
AllSources == {SourcesV2[i] : i \in 1..Len(SourcesV2)}

\* path.join(PRICING_DIR, ...) of each source
FileOf(s) ==
    CASE s = "openai" -> "openai"
      [] s = "anthropic" -> "anthropic"
      [] s = "aws" -> "aws_compute"
      [] s = "azure" -> "azure_compute"
      [] s = "gcp" -> "gcp_compute"
      [] OTHER -> "saas_tools"
Files == {FileOf(s) : s \in AllSources}
\* the part of a file one source owns (existing.supabase, existing.vercel, ...)
SectionsOf(f) == {s \in AllSources : FileOf(s) = f}

\* Prices: 0 = entry absent, 1 = an outdated price, 2 = the price of the
\* hard-coded tables (and one of the two prices the Azure API may quote).
Absent == 0
TablePrice == 2
OldPrice == 1

Missing(f) == [st |-> "missing", data |-> [s \in SectionsOf(f) |-> Absent]]
Partial(f) == [st |-> "partial", data |-> [s \in SectionsOf(f) |-> Absent]]
Whole(f, d) == [st |-> "ok", data |-> d]

\* which sources await a fetch, and what each revision does around it
IsNetwork(s) == s \in {"aws", "azure"}

\* { signal: AbortSignal.timeout(ms) } of the fetch a source is waiting on
TimeoutOf(s, stage) ==
    IF rev = "v2"
    THEN CASE s = "aws" /\ stage = "index" -> INDEX_TIMEOUT_MS
           [] s = "aws" /\ stage = "head" -> HEAD_TIMEOUT_MS
           [] s = "azure" /\ stage = "fetch" -> AZURE_TIMEOUT_MS
           [] OTHER -> NO_TIMEOUT
    ELSE NO_TIMEOUT

Pending(stage) == stage \in {"index", "head", "fetch"}

\* the first fetch a network source issues
FirstStage(s) == IF rev = "v2" /\ s = "aws" THEN "index" ELSE "fetch"

\* safeWriteJson (v2) against fs.writeFileSync(filePath, ...) (v1)
UsesSafeWrite == rev = "v2"

\* const existing = safeReadJson(filePath) || {}        (v2)
\* const existing = JSON.parse(fs.readFileSync(...))    (v1, throws)
ReadThrows(f) == rev = "v1" /\ files[f].st # "ok"
EmptyDocument(f) == [s \in SectionsOf(f) |-> Absent]
Existing(f) == IF files[f].st = "ok" THEN files[f].data
               ELSE [s \in SectionsOf(f) |-> Absent]

\* the comparison that decides `updated++` for the one entry of source s
Changed(s, current, cand) ==
    CASE s = "azure" /\ rev = "v2" -> cand # Absent /\ current # cand
      [] s = "azure" /\ rev = "v1" ->
            cand # Absent /\ current # Absent /\ current # cand
      [] s \in {"openai", "anthropic"} /\ rev = "v1" ->
            current # Absent /\ current # cand
      [] OTHER -> current # cand

\* v1 fetchGCPPricing returns a constant report and touches no file
IsConstant(s) == rev = "v1" /\ s = "gcp"

\* ------------------------------------------------ cycles and frames
NoReport == [cyc |-> 0, updates |-> <<>>]
\* no /status response was written in the last step
NoStatus == [sent |-> FALSE, isUpdating |-> FALSE, lastUpdate |-> NoReport,
             running |-> FALSE, lastDone |-> NoReport]

NewCycle(caller, req) ==
    [caller |-> caller, req |-> req,
     rep |-> [s \in SourceSet |-> "none"],
     items |-> [s \in SourceSet |-> 0],
     net |-> [s \in SourceSet |-> "idle"],
     attempts |-> [s \in SourceSet |-> 0],
     fault |-> [s \in SourceSet |-> "none"],
     differed |-> [s \in SourceSet |-> FALSE],
     wrote |-> [s \in SourceSet |-> FALSE]]

Frame(c, i, ph, md, b, p) ==
    [cyc |-> c, idx |-> i, phase |-> ph, mode |-> md, buf |-> b, cand |-> p]
Idle == Frame(0, 0, "idle", "none", <<>>, <<>>)

IndexOf(s) == CHOOSE i \in 1..Len(Sources) : Sources[i] = s
InFlight == DOMAIN cycles

\* Promise.all: every element of the array has settled
AllSettled(cy) == \A s \in SourceSet : cy.rep[s] # "none"

\* const updates = await Promise.all([...]): one PriceUpdate per array
\* element, in array order
Updates(cy) ==
    [i \in 1..Len(Sources) |->
        [source |-> Sources[i], status |-> cy.rep[Sources[i]],
         itemsUpdated |-> cy.items[Sources[i]]]]

\* where the thread goes when the body of a source returns or suspends:
\* on to the next element of the array while runPricingUpdate is still
\* building it, else to the continuation of Promise.all or back to the
\* event loop
After(c, cy, fr) ==
    IF fr.mode = "launch" /\ fr.idx < Len(Sources)
    THEN Frame(c, fr.idx + 1, "run", "launch", <<>>, <<>>)
    ELSE IF AllSettled(cy) THEN Frame(c, 0, "settle", "none", <<>>, <<>>)
         ELSE Idle

\* a source returns its PriceUpdate {status, itemsUpdated}
Settle(c, cy, s, st, n, flt) ==
    LET done == [cy EXCEPT !.rep[s] = st, !.items[s] = n,
                           !.net[s] = IF IsNetwork(s) THEN "done" ELSE @,
                           !.fault[s] = IF flt = "none" THEN @ ELSE flt]
    IN /\ cycles' = [cycles EXCEPT ![c] = done]
       /\ js' = After(c, done, js)

\* the loop over the candidate entries: each one that differs from the
\* entry as it stands at that moment replaces it and counts in `updated`
RECURSIVE MergeQuotes(_, _, _, _, _)
MergeQuotes(s, current, quotes, i, updated) ==
    IF i > Len(quotes) THEN [price |-> current, updated |-> updated]
    ELSE IF Changed(s, current, quotes[i])
         THEN MergeQuotes(s, quotes[i], quotes, i + 1, updated + 1)
         ELSE MergeQuotes(s, current, quotes, i + 1, updated)

\* read the catalog file, run the loop, decide on `updated` (kept in the
\* cycle's items until the source returns)
ReadAndDiff(c, cy, s, cand) ==
    LET f == FileOf(s)
        existing == Existing(f)
        merged == MergeQuotes(s, existing[s], cand, 1, 0)
    IN IF ReadThrows(f)
       THEN Settle(c, cy, s, "failed", 0, "error")
       ELSE IF merged.updated > 0
            THEN /\ cycles' = [cycles EXCEPT ![c] =
                                  [cy EXCEPT !.differed[s] = TRUE,
                                             !.items[s] = merged.updated]]
                 /\ js' = Frame(c, js.idx, "wopen", js.mode,
                                [existing EXCEPT ![s] = merged.price], cand)
            ELSE Settle(c, cy, s, "no_change", 0, "none")

\* a caller enters runPricingUpdate()
Launch(caller, req) ==
    /\ nextId <= MaxCycles
    /\ cycles' = (nextId :> NewCycle(caller, req)) @@ cycles
    /\ nextId' = nextId + 1
    /\ js' = Frame(nextId, 1, "run", "launch", <<>>, <<>>)

\* the flag with `isUpdating = false` after the await instead of in `finally`
FlagAfterCycleNoFinally(caller, threw) ==
    IF caller = "initial" \/ threw THEN isUpdating ELSE FALSE

\* isUpdating after the caller's `await runPricingUpdate()` has ended:
\* the trigger handler and the interval callback clear it in `finally`,
\* main() never touches it
FlagAfterCycle(caller, threw) ==
    IF caller = "initial" THEN isUpdating ELSE FALSE

\* ------------------------------------------------------------ Init
Init ==
    /\ rev \in {"v1", "v2"}
    /\ readOnly \in {{}, {"openai"}}
    /\ files \in {[f \in Files |-> Whole(f, [s \in SectionsOf(f) |-> OldPrice])],
                  [f \in Files |-> Missing(f)]}
    /\ tmp = [f \in Files |-> Missing(f)]
    /\ mainPc = "start"
    /\ intervalArmed = FALSE
    /\ isUpdating = FALSE
    /\ lastUpdateResult = NoReport
    /\ cycles = <<>>
    /\ nextId = 1
    /\ js = Idle
    /\ requests = <<>>
    /\ statusReply = NoStatus
    /\ lastDone = NoReport
    /\ offers = [c \in 1..MaxCycles |-> <<>>]
    /\ text = <<>>
    /\ result = NoResult
    /\ sortedCategories = <<>>
    /\ apiKey = ""
    /\ hf = NoCall
    /\ keywordResult = NoResult
    /\ request = NoRequest
    /\ response = NoResponse

\* ---------------------------------------------------------- events
\* main(): createServer, listen, then `lastUpdateResult = await
\* runPricingUpdate()` with the flag untouched
MainStart ==
    /\ mainPc = "start"
    /\ js = Idle
    /\ mainPc' = "initial"
    /\ Launch("initial", 0)
    /\ UNCHANGED <<rev, readOnly, files, tmp, intervalArmed, isUpdating,
                   lastUpdateResult, requests, lastDone, offers,
                   classifierVars, resolverVars>>
    /\ statusReply' = NoStatus

\* the setInterval callback
Tick ==
    /\ intervalArmed
    /\ js = Idle
    /\ IF ~isUpdating
       THEN /\ isUpdating' = TRUE
            /\ Launch("tick", 0)
       ELSE UNCHANGED <<isUpdating, cycles, nextId, js>>
    /\ UNCHANGED <<rev, readOnly, files, tmp, mainPc, intervalArmed,
                   lastUpdateResult, requests, lastDone, offers,
                   classifierVars, resolverVars>>
    /\ statusReply' = NoStatus

\* handleRequest, POST /trigger
Trigger ==
    /\ mainPc # "start"
    /\ js = Idle
    /\ Len(requests) < MaxRequests
    /\ IF isUpdating
       THEN /\ requests' = Append(requests,
                [busy |-> InFlight # {}, code |-> HTTP_CONFLICT, cyc |-> 0])
            /\ UNCHANGED <<isUpdating, cycles, nextId, js>>
       ELSE /\ isUpdating' = TRUE
            /\ requests' = Append(requests,
                [busy |-> InFlight # {}, code |-> 0, cyc |-> nextId])
            /\ Launch("trigger", Len(requests) + 1)
    /\ UNCHANGED <<rev, readOnly, files, tmp, mainPc, intervalArmed,
                   lastUpdateResult, lastDone, offers,
                   classifierVars, resolverVars>>
    /\ statusReply' = NoStatus

\* handleRequest, GET /status
Status ==
    /\ mainPc # "start"
    /\ js = Idle
    /\ statusReply' = [sent |-> TRUE, isUpdating |-> isUpdating,
                       lastUpdate |-> lastUpdateResult,
                       running |-> InFlight # {}, lastDone |-> lastDone]
    /\ UNCHANGED <<rev, readOnly, files, tmp, mainPc, intervalArmed, isUpdating,
                   lastUpdateResult, cycles, nextId, js, requests, lastDone, classifierVars, resolverVars>>
    /\ UNCHANGED offers

\* a fetch settles: outcome is what the endpoint did, body the prices an
\* Azure 2xx response quotes for the one SKU of the model, in the order of
\* its Items (none, one item, or two items naming the same armSkuName)
FetchResponse(c, s, outcome, body) ==
    /\ js = Idle
    /\ c \in InFlight
    /\ s \in SourceSet
    /\ Pending(cycles[c].net[s])
    /\ body # <<>> => (s = "azure" /\ outcome = "ok")
    /\ outcome = "invalid" => (s = "azure" \/ cycles[c].net[s] = "index")
    /\ LET cy == cycles[c]
           stage == cy.net[s]
           http == IF outcome = "bad_status" THEN "http" ELSE "none"
           seen == [cy EXCEPT !.fault[s] = IF http = "none" THEN @ ELSE http]
       IN CASE outcome = "net_error" -> Settle(c, cy, s, "failed", 0, "error")
            [] outcome = "invalid" -> Settle(c, cy, s, "failed", 0, "error")
            [] outcome \in {"ok", "bad_status"} /\ stage = "index" ->
                 IF outcome = "ok"
                 THEN /\ cycles' = [cycles EXCEPT ![c] = [cy EXCEPT !.net[s] = "head"]]
                      /\ js' = Idle
                 ELSE Settle(c, cy, s, "failed", 0, "http")
            [] outcome \in {"ok", "bad_status"} /\ stage = "head" ->
                 /\ cycles' = [cycles EXCEPT ![c] = [seen EXCEPT !.net[s] = "done"]]
                 /\ js' = Frame(c, IndexOf(s), "diff", "resume", <<>>, <<TablePrice>>)
            [] outcome \in {"ok", "bad_status"} /\ stage = "fetch" /\ s = "aws" ->
                 Settle(c, cy, s, "no_change", 0, http)
            [] outcome = "ok" /\ stage = "fetch" /\ s = "azure" ->
                 /\ cycles' = [cycles EXCEPT ![c] = [cy EXCEPT !.net[s] = "done"]]
                 /\ js' = Frame(c, IndexOf(s), "diff", "resume", <<>>, body)
            [] outcome = "bad_status" /\ stage = "fetch" /\ s = "azure" ->
                 Settle(c, cy, s, "failed", 0, "http")
    /\ UNCHANGED <<rev, readOnly, files, tmp, mainPc, intervalArmed, isUpdating,
                   lastUpdateResult, nextId, requests, lastDone, classifierVars, resolverVars>>
    /\ offers' = IF s = "azure" /\ outcome = "ok"
                 THEN [offers EXCEPT ![c] = body] ELSE offers
    /\ statusReply' = NoStatus

\* AbortSignal.timeout fires: the awaited fetch rejects
FetchTimeout(c, s) ==
    /\ js = Idle
    /\ c \in InFlight
    /\ s \in SourceSet
    /\ Pending(cycles[c].net[s])
    /\ TimeoutOf(s, cycles[c].net[s]) > NO_TIMEOUT
    /\ Settle(c, cycles[c], s, "failed", 0, "error")
    /\ UNCHANGED <<rev, readOnly, files, tmp, mainPc, intervalArmed, isUpdating,
                   lastUpdateResult, nextId, requests, lastDone, classifierVars, resolverVars>>
    /\ UNCHANGED offers
    /\ statusReply' = NoStatus

\* ------------------------------------------- steps of the JS thread
\* runPricingUpdate evaluates the next element of the Promise.all array:
\* the body of the source runs up to its first await, or to its return
SourceRun ==
    /\ js.phase = "run"
    /\ LET c == js.cyc
           s == Sources[js.idx]
           cy == [cycles[c] EXCEPT !.attempts[s] = @ + 1]
       IN CASE IsNetwork(s) ->
                 LET sent == [cy EXCEPT !.net[s] = FirstStage(s)]
                 IN /\ cycles' = [cycles EXCEPT ![c] = sent]
                    /\ js' = After(c, sent, js)
            [] IsConstant(s) -> Settle(c, cy, s, "no_change", 0, "none")
            [] OTHER -> ReadAndDiff(c, cy, s, <<TablePrice>>)
    /\ UNCHANGED <<rev, readOnly, files, tmp, mainPc, intervalArmed, isUpdating,
                   lastUpdateResult, nextId, requests, lastDone, classifierVars, resolverVars>>
    /\ UNCHANGED offers
    /\ statusReply' = NoStatus

\* a network source resumes after its last await with the data to merge
SourceDiff ==
    /\ js.phase = "diff"
    /\ ReadAndDiff(js.cyc, cycles[js.cyc], Sources[js.idx], js.cand)
    /\ UNCHANGED <<rev, readOnly, files, tmp, mainPc, intervalArmed, isUpdating,
                   lastUpdateResult, nextId, requests, lastDone, classifierVars, resolverVars>>
    /\ UNCHANGED offers
    /\ statusReply' = NoStatus

\* fs.writeFileSync opens (creates or truncates) its path: the temporary
\* path under safeWriteJson, the catalog file itself otherwise
WriteOpen ==
    /\ js.phase = "wopen"
    /\ LET c == js.cyc
           s == Sources[js.idx]
           f == FileOf(s)
       IN IF f \in readOnly
          THEN /\ Settle(c, cycles[c], s, "failed", 0, "error")
               /\ UNCHANGED <<files, tmp>>
          ELSE /\ IF UsesSafeWrite
                  THEN tmp' = [tmp EXCEPT ![f] = Partial(f)] /\ UNCHANGED files
                  ELSE files' = [files EXCEPT ![f] = Partial(f)] /\ UNCHANGED tmp
               /\ js' = [js EXCEPT !.phase = "wflush"]
               /\ UNCHANGED cycles
    /\ UNCHANGED <<rev, readOnly, mainPc, intervalArmed, isUpdating,
                   lastUpdateResult, nextId, requests, lastDone, classifierVars, resolverVars>>
    /\ UNCHANGED offers
    /\ statusReply' = NoStatus

\* fs.writeFileSync has written the whole document and returns
WriteFlush ==
    /\ js.phase = "wflush"
    /\ LET c == js.cyc
           s == Sources[js.idx]
           f == FileOf(s)
       IN IF UsesSafeWrite
          THEN /\ tmp' = [tmp EXCEPT ![f] = Whole(f, js.buf)]
               /\ js' = [js EXCEPT !.phase = "wrename"]
               /\ UNCHANGED <<files, cycles>>
          ELSE /\ files' = [files EXCEPT ![f] = Whole(f, js.buf)]
               /\ Settle(c, [cycles[c] EXCEPT !.wrote[s] = TRUE], s, "success",
                      cycles[c].items[s], "none")
               /\ UNCHANGED tmp
    /\ UNCHANGED <<rev, readOnly, mainPc, intervalArmed, isUpdating,
                   lastUpdateResult, nextId, requests, lastDone, classifierVars, resolverVars>>
    /\ UNCHANGED offers
    /\ statusReply' = NoStatus

\* fs.renameSync(tempPath, filePath)
WriteRename ==
    /\ js.phase = "wrename"
    /\ LET c == js.cyc
           s == Sources[js.idx]
           f == FileOf(s)
       IN /\ files' = [files EXCEPT ![f] = tmp[f]]
          /\ tmp' = [tmp EXCEPT ![f] = Missing(f)]
          /\ Settle(c, [cycles[c] EXCEPT !.wrote[s] = TRUE], s, "success",
                      cycles[c].items[s], "none")
    /\ UNCHANGED <<rev, readOnly, mainPc, intervalArmed, isUpdating,
                   lastUpdateResult, nextId, requests, lastDone, classifierVars, resolverVars>>
    /\ UNCHANGED offers
    /\ statusReply' = NoStatus

\* Promise.all has resolved: the rest of runPricingUpdate (which logs and
\* may throw doing so) and then the caller's continuation
CycleComplete ==
    /\ js.phase = "settle"
    /\ \E threw \in BOOLEAN :
         LET c == js.cyc
             cy == cycles[c]
             res == [cyc |-> c, updates |-> Updates(cy)]
         IN /\ cycles' = [d \in InFlight \ {c} |-> cycles[d]]
            /\ js' = Idle
            /\ lastUpdateResult' = IF threw THEN lastUpdateResult ELSE res
            /\ lastDone' = IF threw THEN lastDone ELSE res
            /\ isUpdating' = FlagAfterCycle(cy.caller, threw)
            /\ mainPc' = IF cy.caller # "initial" THEN mainPc
                         ELSE IF threw THEN "failed" ELSE "serving"
            /\ intervalArmed' = (intervalArmed \/ (cy.caller = "initial" /\ ~threw))
            /\ requests' = IF cy.caller = "trigger" /\ ~threw
                           THEN [requests EXCEPT ![cy.req].code = HTTP_OK]
                           ELSE requests
    /\ UNCHANGED <<rev, readOnly, files, tmp, nextId, offers, classifierVars, resolverVars>>
    /\ statusReply' = NoStatus

Outcomes == {"ok", "bad_status", "net_error", "invalid"}
AzureBodies == {<<>>, <<TablePrice>>, <<OldPrice, TablePrice>>}
CycleIds == 1..MaxCycles

Next ==
    \/ MainStart
    \/ Tick
    \/ Trigger
    \/ Status
    \/ \E c \in CycleIds, s \in AllSources, o \in Outcomes, b \in AzureBodies :
           FetchResponse(c, s, o, b)
    \/ \E c \in CycleIds, s \in AllSources : FetchTimeout(c, s)
    \/ SourceRun
    \/ SourceDiff
    \/ WriteOpen
    \/ WriteFlush
    \/ WriteRename
    \/ CycleComplete

Spec == Init /\ [][Next]_vars

\* ------------------------------------------- the classifier, called
\* the updater is a separate process: it stays as it is before main()
UpdaterAtRest ==
    /\ rev = "v2"
    /\ readOnly = {}
    /\ files = [f \in Files |-> Missing(f)]
    /\ tmp = [f \in Files |-> Missing(f)]
    /\ mainPc = "start"
    /\ intervalArmed = FALSE
    /\ isUpdating = FALSE
    /\ lastUpdateResult = NoReport
    /\ cycles = <<>>
    /\ nextId = 1
    /\ js = Idle
    /\ requests = <<>>
    /\ statusReply = NoStatus
    /\ lastDone = NoReport
    /\ offers = [c \in 1..MaxCycles |-> <<>>]

ClassifyInit ==
    /\ UpdaterAtRest
    /\ text = <<>>
    /\ result = NoResult
    /\ sortedCategories = <<>>
    /\ apiKey = ""
    /\ hf = NoCall
    /\ keywordResult = NoResult
    /\ request = NoRequest
    /\ response = NoResponse

\* the caller puts one more word into the task description
Describe(w) ==
    /\ hf.pc = "none"
    /\ NumWords(text) < MaxWords
    /\ text' = IF text = <<>> THEN w ELSE text \o <<" ">> \o w
    /\ UNCHANGED <<result, sortedCategories, apiKey, hf, keywordResult, updaterVars, resolverVars>>

\* the caller passes the sentence of the test suite
DescribeVoiceApp ==
    /\ hf.pc = "none"
    /\ text = <<>>
    /\ text' = VoiceAppTask
    /\ UNCHANGED <<result, sortedCategories, apiKey, hf, keywordResult, updaterVars, resolverVars>>

\* classifyTaskSync(task)
ClassifySync ==
    /\ hf.pc = "none"
    /\ sortedCategories' = SortedCategories(text)
    /\ result' = ResultOf(sortedCategories')
    /\ hf' = [hf EXCEPT !.pc = "sync"]
    /\ UNCHANGED <<text, apiKey, keywordResult, updaterVars, resolverVars>>

\* classifyTask(task) up to its first await, or to its return when the
\* remote service is not asked; key is what process.env holds at the call
ClassifyTaskCall(key) ==
    /\ hf.pc = "none"
    /\ apiKey' = key
    /\ sortedCategories' = SortedCategories(text)
    /\ keywordResult' = ResultOf(sortedCategories')
    /\ IF keywordResult'.confidence = "low" /\ key # ""
       THEN /\ hf' = [hf EXCEPT !.pc = "pending", !.consulted = TRUE,
                                !.timeout = HF_TIMEOUT_MS]
            /\ result' = result
       ELSE /\ hf' = [hf EXCEPT !.pc = "returned"]
            /\ result' = keywordResult'
    /\ UNCHANGED <<text, updaterVars, resolverVars>>

\* classifyWithHuggingFace settles and classifyTask continues
HfSettle(outcome, topLabel) ==
    LET hfResult == HfCatch(HfTry(outcome, topLabel))
    IN /\ hf.pc = "pending"
       /\ hf' = [hf EXCEPT !.pc = IF hfResult = Thrown THEN "raised" ELSE "returned",
                           !.outcome = outcome,
                           !.answer = IF outcome = "labels" THEN topLabel ELSE Null]
       /\ result' = IF hfResult = Thrown THEN result ELSE Adopt(keywordResult, hfResult)
       /\ UNCHANGED <<text, sortedCategories, apiKey, keywordResult, updaterVars, resolverVars>>

\* the remote service answers, or the connection fails
HfResponse ==
    \/ \E outcome \in HfOutcomes \ {"labels"} : HfSettle(outcome, Null)
    \/ \E topLabel \in RemoteLabels : HfSettle("labels", topLabel)

\* AbortSignal.timeout(5000) fires
HfTimeout ==
    /\ hf.timeout # NO_TIMEOUT
    /\ HfSettle("timeout", Null)

ClassifyNext ==
    \/ \E w \in Vocabulary : Describe(w)
    \/ DescribeVoiceApp
    \/ ClassifySync
    \/ \E key \in {"", "hf_key"} : ClassifyTaskCall(key)
    \/ HfResponse
    \/ HfTimeout

ClassifySpec == ClassifyInit /\ [][ClassifyNext]_vars


\* --------------------------------------------- the resolvers, called
\* the classifier is not in use
ClassifierAtRest ==
    /\ text = <<>>
    /\ result = NoResult
    /\ sortedCategories = <<>>
    /\ apiKey = ""
    /\ hf = NoCall
    /\ keywordResult = NoResult

ResolveInit ==
    /\ UpdaterAtRest
    /\ ClassifierAtRest
    /\ request = NoRequest
    /\ response = NoResponse

\* handleEstimateOpenAICost(args)
EstimateOpenAICost(model, inputTokens, outputTokens) ==
    /\ request = NoRequest
    /\ request' = [tool |-> "estimateOpenAICost", model |-> model,
                   inputTokens |-> inputTokens, outputTokens |-> outputTokens]
    /\ response' = estimateOpenAICost(model, inputTokens, outputTokens)
    /\ UNCHANGED <<updaterVars, classifierVars>>

\* handleEstimateAnthropicCost(args)
EstimateAnthropicCost(model, inputTokens, outputTokens) ==
    /\ request = NoRequest
    /\ request' = [tool |-> "estimateAnthropicCost", model |-> model,
                   inputTokens |-> inputTokens, outputTokens |-> outputTokens]
    /\ response' = estimateAnthropicCost(model, inputTokens, outputTokens)
    /\ UNCHANGED <<updaterVars, classifierVars>>

\* handleModelSwitchSavings(args)
ModelSwitchSavings(currentModel, monthlyTokens, qualityRequirement) ==
    /\ request = NoRequest
    /\ request' = [tool |-> "handleModelSwitchSavings", model |-> currentModel,
                   monthlyTokens |-> monthlyTokens,
                   qualityRequirement |-> qualityRequirement]
    /\ response' = handleModelSwitchSavings(currentModel, monthlyTokens, qualityRequirement)
    /\ UNCHANGED <<updaterVars, classifierVars>>

\* handleEstimateComputeCost(args)
EstimateComputeCost(provider, instanceType, hours) ==
    /\ request = NoRequest
    /\ request' = [tool |-> "estimateComputeCost", provider |-> provider,
                   instanceType |-> instanceType, hours |-> hours]
    /\ response' = estimateComputeCost(provider, instanceType, hours)
    /\ UNCHANGED <<updaterVars, classifierVars>>

\* handleCompareCloudCost(args)
CompareCloudCost(serviceType, instanceType, hours, gb) ==
    /\ request = NoRequest
    /\ request' = [tool |-> "compareCloudCost", serviceType |-> serviceType,
                   instanceType |-> instanceType, hours |-> hours, gb |-> gb]
    /\ response' = compareCloudCost(serviceType, instanceType, hours, gb)
    /\ UNCHANGED <<updaterVars, classifierVars>>

\* handleForecastRunway(args)
ForecastRunway(monthlyInfraCost, monthlyRevenue, cashInBank) ==
    /\ request = NoRequest
    /\ request' = [tool |-> "forecastRunway", monthlyInfraCost |-> monthlyInfraCost,
                   monthlyRevenue |-> monthlyRevenue, cashInBank |-> cashInBank]
    /\ response' = forecastRunway(monthlyInfraCost, monthlyRevenue, cashInBank)
    /\ UNCHANGED <<updaterVars, classifierVars>>

\* handleDatabaseTierRecommendation(args)
DatabaseTierRecommendation(provider, storageGb) ==
    /\ request = NoRequest
    /\ request' = [tool |-> "handleDatabaseTierRecommendation", provider |-> provider,
                   storageGb |-> storageGb]
    /\ response' = handleDatabaseTierRecommendation(provider, storageGb)
    /\ UNCHANGED <<updaterVars, classifierVars>>

\* handleBreakEvenAnalysis(args)
BreakEvenAnalysis(optionA, optionB, timeHorizon) ==
    /\ request = NoRequest
    /\ request' = [tool |-> "handleBreakEvenAnalysis", optionA |-> optionA,
                   optionB |-> optionB, timeHorizon |-> timeHorizon]
    /\ response' = handleBreakEvenAnalysis(optionA, optionB, timeHorizon)
    /\ UNCHANGED <<updaterVars, classifierVars>>

\* handleEstimateBandwidthCost(args)
EstimateBandwidthCost(provider, gbTransfer) ==
    /\ request = NoRequest
    /\ request' = [tool |-> "handleEstimateBandwidthCost", provider |-> provider,
                   gbTransfer |-> gbTransfer]
    /\ response' = handleEstimateBandwidthCost(provider, gbTransfer)
    /\ UNCHANGED <<updaterVars, classifierVars>>

\* handleForecastScalingCost(args)
ForecastScalingCost(currentMonthlyCost, halves, months) ==
    /\ request = NoRequest
    /\ request' = [tool |-> "handleForecastScalingCost", cost |-> currentMonthlyCost,
                   halves |-> halves, months |-> months]
    /\ response' = handleForecastScalingCost(currentMonthlyCost, halves, months)
    /\ UNCHANGED <<updaterVars, classifierVars>>

ResolveNext ==
    \/ \E m \in OpenAIModelIds, i \in TokenCounts, o \in TokenCounts :
          EstimateOpenAICost(m, i, o)
    \/ \E m \in AnthropicModelIds, i \in TokenCounts, o \in TokenCounts :
          EstimateAnthropicCost(m, i, o)
    \/ \E m \in SwitchModelIds, t \in TokenCounts, q \in QualityRequirements :
          ModelSwitchSavings(m, t, q)
    \/ \E p \in Providers, id \in InstanceTypeIds, h \in HoursOfUse :
          EstimateComputeCost(p, id, h)
    \/ \E st \in ServiceTypes, id \in ComparableInstanceTypes, h \in HoursOfUse,
          gb \in GbOfUse : CompareCloudCost(st, id, h, gb)
    \/ \E c \in MonthlyAmounts, r \in MonthlyAmounts, b \in CashBalances :
          ForecastRunway(c, r, b)
    \/ \E p \in DatabaseProviders, g \in StorageInUse :
          DatabaseTierRecommendation(p, g)
    \/ \E a \in Options, b \in Options, h \in TimeHorizons :
          BreakEvenAnalysis(a, b, h)
    \/ \E p \in Providers, gb \in TransferVolumes : EstimateBandwidthCost(p, gb)
    \/ \E r \in ForecastRequests : ForecastScalingCost(r.cost, r.halves, r.months)

ResolveSpec == ResolveInit /\ [][ResolveNext]_vars

\* ------------------------------------------------ updater: the claims
Guarded(c) == cycles[c].caller \in {"tick", "trigger"}

\* C1: at no point are two update cycles in progress at the same time,
\* whatever the interleaving of the initial update, interval ticks and
\* manual triggers.
C1_AtMostOneCycle == Cardinality(InFlight) <= 1

\* C2: a manual trigger that arrives while any update cycle is in flight is
\* answered 409 and starts no cycle, neither at that moment nor later.
C2_BusyTriggerRejected ==
    \A i \in DOMAIN requests :
        requests[i].busy =>
            requests[i].code = HTTP_CONFLICT /\ requests[i].cyc = 0

\* C3: when Promise.all of a cycle has resolved, the aggregated report holds
\* exactly one entry per configured source, each source was attempted
\* exactly once, and an entry is 'failed' exactly for the sources that hit a
\* network error, a timeout, a non-2xx response or another error, and
\* 'success' or 'no_change' for every other source.
C3_OneEntryPerSourceFailedIffFailing ==
    js.phase = "settle" =>
        LET cy == cycles[js.cyc]
            u == Updates(cy)
        IN /\ Len(u) = Cardinality(SourceSet)
           /\ \A s \in SourceSet :
                /\ Cardinality({i \in DOMAIN u : u[i].source = s}) = 1
                /\ cy.attempts[s] = 1
                /\ cy.rep[s] \in {"success", "no_change", "failed"}
                /\ (cy.rep[s] = "failed") <=> (cy.fault[s] # "none")

\* C4: no update cycle can be stalled by an endpoint that never responds:
\* every outbound fetch a source is waiting on carries a bounded timeout.
C4_EveryPendingFetchHasTimeout ==
    \A c \in InFlight : \A s \in SourceSet :
        Pending(cycles[c].net[s]) => TimeoutOf(s, cycles[c].net[s]) > NO_TIMEOUT

\* C5: a reader of a catalog file sees, at every moment, a complete
\* document (the previous or the new one), never a partially written file.
C5_ReaderNeverSeesPartialFile == \A f \in Files : files[f].st # "partial"

\* C6: a status query returns the report of the most recently completed
\* cycle (none before the first completes) and an isUpdating flag that is
\* true if and only if an update cycle is running at that moment.
C6_StatusIsTruthful ==
    statusReply.sent =>
        /\ statusReply.isUpdating <=> statusReply.running
        /\ statusReply.lastUpdate = statusReply.lastDone

\* C7: the re-entrancy flag is set only while a cycle started by a trigger
\* or a tick is in flight: when such a cycle has ended, by return or by
\* exception, isUpdating is false again, so the service is never left stuck
\* in 'updating' and the next trigger or tick is accepted.
C7_FlagClearedWhenCycleEnds ==
    isUpdating => \E c \in InFlight : Guarded(c)
\* a trigger's cycle threw (its handler wrote no response), nothing runs,
\* and the flag is clear
C7_Witness ==
    /\ InFlight = {}
    /\ ~isUpdating
    /\ \E i \in DOMAIN requests : requests[i].cyc # 0 /\ requests[i].code = 0

\* C8: every per-source report is 'success' exactly when an entry differed
\* and the catalog file was written (itemsUpdated > 0), 'no_change' exactly
\* when the source ran without error or non-2xx response, nothing differed
\* and nothing was written (itemsUpdated = 0), and 'failed' exactly when the
\* source hit an error or a non-2xx response (itemsUpdated = 0).
C8_StatusMatchesWhatHappened ==
    \A c \in InFlight : \A s \in SourceSet :
        LET cy == cycles[c]
        IN cy.rep[s] # "none" =>
            /\ (cy.rep[s] = "success") <=>
                  (cy.differed[s] /\ cy.wrote[s] /\ cy.items[s] > 0)
            /\ (cy.rep[s] = "no_change") <=>
                  (cy.fault[s] = "none" /\ ~cy.differed[s] /\ ~cy.wrote[s]
                   /\ cy.items[s] = 0)
            /\ (cy.rep[s] = "failed") <=>
                  (cy.fault[s] # "none" /\ cy.items[s] = 0)


\* the sources that keep their section in saas_tools.json
SaasSources == SectionsOf("saas_tools") \cap SourceSet

\* C29: the four SaaS sources of one cycle read, modify and rewrite the same
\* saas_tools.json through the same temporary path, and the file holds the
\* change of every source that reported success: no write is lost to, or
\* overwritten by, a sibling that worked from a stale read.
C29_NoSaasWriteLost ==
    \A c \in InFlight : \A s \in SaasSources :
        cycles[c].rep[s] = "success" =>
            /\ files["saas_tools"].st = "ok"
            /\ files["saas_tools"].data[s] = TablePrice
\* Promise.all of a cycle has resolved, all four sources reported success
\* and the file holds all four sections
C29_Witness ==
    /\ js.phase = "settle"
    /\ Cardinality(SaasSources) = 4
    /\ \A s \in SaasSources : cycles[js.cyc].rep[s] = "success"
    /\ \A s \in SaasSources : files["saas_tools"].data[s] = TablePrice


\* the status of source s in an UpdateResult
StatusIn(report, s) ==
    report.updates[CHOOSE i \in DOMAIN report.updates :
                       report.updates[i].source = s].status

\* cycle c began while no other cycle was running, and the cycle before it
\* is the one that returned last
NextAfterCompleted(c) ==
    /\ c > 1
    /\ lastDone.cyc = c - 1
    /\ \/ cycles[c].caller = "tick"
       \/ cycles[c].caller = "trigger" /\ ~requests[cycles[c].req].busy

\* source s offers in cycle c the data it offered in the cycle before: the
\* hard-coded tables never change, and two Azure responses offer the same
\* data when they quote the same prices
SameOffer(c, s) == s = "azure" => offers[c] = offers[c - 1]

\* C30: update cycles are idempotent on unchanged source data: when a cycle
\* has completed and the sources offer the same data in the next cycle, the
\* next cycle writes no catalog file, and every source that does not fail
\* reports status no_change with itemsUpdated = 0.
C30_UnchangedDataWritesNothing ==
    \A c \in InFlight :
        NextAfterCompleted(c) =>
            \A s \in SourceSet :
                (StatusIn(lastDone, s) # "failed" /\ SameOffer(c, s)) =>
                    /\ ~cycles[c].differed[s]
                    /\ ~cycles[c].wrote[s]
                    /\ cycles[c].rep[s] \in {"none", "failed", "no_change"}
                    /\ cycles[c].rep[s] # "none" => cycles[c].items[s] = 0

\* --------------------------------------------- classifier: the claims
Classified == hf.pc = "sync"
KeywordSet(cat) == {KeywordsOf(cat)[i] : i \in DOMAIN KeywordsOf(cat)}
\* kw is a substring of the lower-cased task description
OccursIn(kw, lowered) ==
    \E i \in 0..(Len(lowered) - Len(kw)) : SubSeq(lowered, i + 1, i + Len(kw)) = kw
DeclarationOrder ==
    <<"development", "code", "audio", "video", "vision", "reasoning",
      "embedding", "classification", "extraction", "chat">>
Rank(cat) == CHOOSE i \in DOMAIN DeclarationOrder : DeclarationOrder[i] = cat

\* C9: each category's score is the number of distinct keywords of that
\* category occurring as substrings of the lower-cased text, and the
\* top-ranked category has the highest score, ties going to the category
\* declared earliest (development, code, audio, video, vision, reasoning,
\* embedding, classification, extraction, chat).
C9_ScoresAndTopRank ==
    Classified =>
        /\ LET lowered == ToLowerCase(text)
           IN \A cat \in Categories :
                result.allScores[cat] =
                    Cardinality({kw \in KeywordSet(cat) : OccursIn(kw, lowered)})
        /\ LET top == sortedCategories[1].category
           IN \A d \in Categories :
                \/ result.allScores[top] > result.allScores[d]
                \/ /\ result.allScores[top] = result.allScores[d]
                   /\ Rank(top) <= Rank(d)
\* code and audio tie for the highest score, and code, declared first, is on top
C9_Witness ==
    /\ Classified
    /\ sortedCategories[1].category = "code"
    /\ result.allScores["code"] >= 1
    /\ result.allScores["code"] = result.allScores["audio"]

\* C10: whenever the top-ranked category is development and the
\* second-ranked category has score >= 1 and is audio, video or vision, the
\* result's category is that second category, its confidence is medium
\* (also when the top score is 3 or more) and its matched keywords are those
\* of both categories; 'an app to convert my voice into someone else'
\* classifies as audio.
C10_MediaDomainOverridesDevelopment ==
    Classified =>
        /\ (/\ sortedCategories[1].category = "development"
            /\ sortedCategories[2].score >= 1
            /\ sortedCategories[2].category \in {"audio", "video", "vision"})
           => /\ result.taskType = sortedCategories[2].category
              /\ result.confidence = "medium"
              /\ LET lowered == ToLowerCase(text)
                 IN {result.matchedKeywords[i] : i \in DOMAIN result.matchedKeywords}
                      = {kw \in KeywordSet(sortedCategories[2].category)
                                 \cup KeywordSet("development") : OccursIn(kw, lowered)}
        /\ text = VoiceAppTask => result.taskType = "audio"
\* development scores 3 or more, vision is second, and the result is vision
C10_Witness ==
    /\ Classified
    /\ sortedCategories[1].category = "development"
    /\ sortedCategories[1].score >= 3
    /\ sortedCategories[2].category = "vision"
    /\ result.taskType = "vision"
    /\ result.confidence = "medium"
\* the number of keywords of each category occurring in the lower-cased text
CountIn(cat, lowered) == Cardinality({kw \in KeywordSet(cat) : OccursIn(kw, lowered)})
\* the highest count of any category, and the highest among the others
BestScore(counts) ==
    CHOOSE n \in {counts[c] : c \in Categories} : \A c \in Categories : counts[c] <= n
RunnerUpScore(counts) ==
    LET first == CHOOSE c \in Categories : counts[c] = BestScore(counts)
        others == Categories \ {first}
    IN CHOOSE n \in {counts[c] : c \in others} : \A c \in others : counts[c] <= n
Disambiguated ==
    /\ sortedCategories[1].category = "development"
    /\ sortedCategories[2].score >= 1
    /\ sortedCategories[2].category \in {"audio", "video", "vision"}

\* C11: when the disambiguation rule does not apply, the confidence of the
\* keyword classification is high if the top score is >= 3; medium if the
\* top score is >= 2, or is >= 1 and strictly greater than the second-place
\* score; and low otherwise.
C11_ConfidenceRule ==
    (Classified /\ ~Disambiguated) =>
        LET lowered == ToLowerCase(text)
            counts == [c \in Categories |-> CountIn(c, lowered)]
            topScore == BestScore(counts)
            secondScore == RunnerUpScore(counts)
        IN /\ (topScore >= 3) => result.confidence = "high"
           /\ (topScore < 3 /\ (topScore >= 2 \/ (topScore >= 1 /\ topScore > secondScore)))
                 => result.confidence = "medium"
           /\ (topScore < 2 /\ ~(topScore >= 1 /\ topScore > secondScore))
                 => result.confidence = "low"
\* two categories tie at the top with one keyword each: low
C11_Witness ==
    /\ Classified
    /\ ~Disambiguated
    /\ sortedCategories[1].score = 1
    /\ sortedCategories[2].score = 1
    /\ result.confidence = "low"

\* C12: for every input string the classifier returns a result; if no
\* keyword of any category matches, the result is category chat, confidence
\* low, an empty matchedKeywords list and usedFallback = false.
C12_AlwaysAResultChatByDefault ==
    Classified =>
        /\ result.taskType \in Categories
        /\ result.confidence \in {"high", "medium", "low"}
        /\ LET lowered == ToLowerCase(text)
           IN (\A cat \in Categories : CountIn(cat, lowered) = 0) =>
                /\ result.taskType = "chat"
                /\ result.confidence = "low"
                /\ result.matchedKeywords = <<>>
                /\ result.usedFallback = FALSE
\* a description that matches no keyword has been classified
C12_Witness ==
    /\ Classified
    /\ text # <<>>
    /\ \A cat \in Categories : result.allScores[cat] = 0
    /\ result.taskType = "chat"
\* C13: the remote zero-shot fallback is consulted only when the keyword
\* result has confidence low and the service is configured; whatever the
\* remote call does (error, timeout, non-2xx response, malformed body,
\* missing API key) classifyTask returns without raising; whenever the
\* fallback is not adopted the result equals the keyword result with
\* usedFallback = false; usedFallback is true only when the returned
\* category came from the remote service.
C13_FallbackNeverFailsTheCall ==
    /\ hf.consulted => (keywordResult.confidence = "low" /\ apiKey # "")
    /\ hf.pc # "raised"
    /\ hf.pc = "returned" =>
         LET adopted == hf.consulted /\ hf.outcome = "labels"
         IN /\ ~adopted => (result = keywordResult /\ result.usedFallback = FALSE)
            /\ result.usedFallback => adopted
            /\ adopted =>
                 /\ result.usedFallback
                 /\ result.confidence = keywordResult.confidence
                 /\ result.matchedKeywords = keywordResult.matchedKeywords
                 /\ result.allScores = keywordResult.allScores
                 /\ hf.answer \in HF_LABELS => result.taskType = LABEL_TO_TASK[hf.answer]
\* the remote service was asked, the connection failed, and classifyTask
\* returned the keyword result
C13_Witness ==
    /\ hf.pc = "returned"
    /\ hf.consulted
    /\ hf.outcome \in {"net_error", "timeout", "bad_json", "null_body"}
    /\ result = keywordResult
    /\ ~result.usedFallback

MediaCategories == {"audio", "video", "vision"}

\* C28: whenever development is the top-ranked category and at least one of
\* audio, video or vision has score >= 1, the classification result is one
\* of those media categories, whatever other categories also score: a media
\* domain named in the text is never shadowed by generic development words.
C28_MediaDomainNeverShadowed ==
    Classified =>
        ((/\ sortedCategories[1].category = "development"
          /\ sortedCategories[1].score >= 1
          /\ \E m \in MediaCategories : result.allScores[m] >= 1)
            => result.taskType \in MediaCategories)

\* ---------------------------------------------- resolvers: the claims
Answered == request # NoRequest
\* the catalog a token-cost or model-switch request is looked up in
CatalogOf(tool) ==
    CASE tool = "estimateOpenAICost" -> Keys(OPENAI_PRICING)
      [] tool = "estimateAnthropicCost" -> Keys(ANTHROPIC_PRICING)
      [] tool = "handleModelSwitchSavings" -> Keys(OPENAI_PRICING) \cup Keys(ANTHROPIC_PRICING)
\* the catalog name a request's identifier stands for, after alias resolution
Canonical(tool, model) ==
    IF tool = "estimateAnthropicCost" /\ LowerCaseId(model) \in DOMAIN MODEL_ALIASES
    THEN MODEL_ALIASES[LowerCaseId(model)]
    ELSE model
ModelTools == {"estimateOpenAICost", "estimateAnthropicCost", "handleModelSwitchSavings"}

\* C14: every lookup of a model identifier that is not in the catalog (after
\* alias resolution), in the OpenAI cost, Anthropic cost and model-switch
\* resolvers, fails with an explicit error that names the identifier and
\* lists the valid identifiers; it never returns a result with a zero or NaN
\* cost.
C14_UnknownModelFailsExplicitly ==
    (Answered /\ request.tool \in ModelTools
       /\ Canonical(request.tool, request.model) \notin CatalogOf(request.tool)) =>
        /\ response.kind = "error"
        /\ response.names = request.model
        /\ response.lists = CatalogOf(request.tool)

\* the strategies of estimateComputeCost that lead to an instance of the
\* provider's catalog
IsInstance(entry) == "hourly_rate" \in DOMAIN entry
ResolvingStrategies(provider, instanceType) ==
    {k \in DOMAIN ParsingStrategies(instanceType) :
        LET s == ParsingStrategies(instanceType)[k]
        IN s.key # <<>> /\ IsInstance(FamilyLookup(provider, s.family, s.key))}
Unresolvable(provider, instanceType) == ResolvingStrategies(provider, instanceType) = {}

\* C15: no resolver ever substitutes a default or estimated rate for an
\* identifier that is absent from the catalog without flagging the fallback
\* in its response; in particular a cloud cost comparison whose instance type
\* cannot be resolved for some provider either fails explicitly or marks that
\* provider's figure as a fallback estimate.
C15_FallbackRateIsFlagged ==
    (Answered /\ request.tool = "compareCloudCost" /\ request.serviceType = "compute") =>
        LET instanceType == IF request.instanceType # <<>> THEN request.instanceType
                            ELSE DefaultInstanceType
        IN \A p \in Providers :
              Unresolvable(p, MappingOf(instanceType)[p]) =>
                 \/ response.kind = "error"
                 \/ p \in response.marksEstimate

\* C20: the instance-cost resolver tries its identifier-parsing strategies in
\* one fixed order and uses the first strategy that resolves to a known
\* catalog entry; if no strategy resolves, it fails with an error that names
\* the unresolved identifier.
C20_FirstResolvingStrategyOrError ==
    (Answered /\ request.tool = "estimateComputeCost") =>
        LET resolving == ResolvingStrategies(request.provider, request.instanceType)
        IN IF resolving = {}
           THEN /\ response.kind = "error"
                /\ response.names = request.instanceType
           ELSE LET s == ParsingStrategies(request.instanceType)[Least(resolving)]
                    entry == FamilyLookup(request.provider, s.family, s.key)
                IN /\ response.kind = "ok"
                   /\ response.hourlyCost = Fin(entry.hourly_rate)

\* the numbers a result carries
NumbersOf(r) ==
    CASE r.tool \in {"estimateOpenAICost", "estimateAnthropicCost"} ->
            {r.totalCost, r.inputCost, r.outputCost}
              \cup {r.alternatives[i].percent : i \in DOMAIN r.alternatives}
              \cup {r.alternatives[i].costDifference : i \in DOMAIN r.alternatives}
      [] r.tool = "handleModelSwitchSavings" ->
            {r.currentMonthlyCost}
              \cup {r.allAlternatives[i].savings : i \in DOMAIN r.allAlternatives}
      [] r.tool = "estimateComputeCost" -> {r.hourlyCost, r.monthlyCost}
      [] r.tool = "compareCloudCost" ->
            {r.percentSavings} \cup {r.monthlyCost[p] : p \in Providers}
      [] r.tool = "forecastRunway" ->
            {r.netBurn, r.burnMultiple}
              \cup {r.decisionPoints[i] : i \in DOMAIN r.decisionPoints}
              \cup ({r.insights[i].impact : i \in DOMAIN r.insights} \ {Undefined})
      [] OTHER -> {}

\* C16: no resolver output contains NaN or Infinity for any schema-valid
\* input: every ratio whose denominator can be zero (zero or negative net
\* burn, zero revenue or new MRR, zero total cost, zero usage) is guarded and
\* yields a sentinel instead, including in values derived from an unbounded
\* runway (decision-point months, insight impacts, burn multiple).
C16_NoNaNOrInfinityInOutput ==
    (Answered /\ response.kind = "ok") =>
        \A x \in NumbersOf(response) : IsFinite(x)

\* the tiers of a provider that hold a given usage
QualifyingTiers(provider, storageGb) ==
    {i \in DOMAIN TiersOf(provider) :
        LET t == TiersOf(provider)[i]
        IN "v" \in DOMAIN t.storage /\ t.storage.v >= storageGb}

\* C17: the database tier recommendation returns the cheapest catalog tier
\* whose capacity limit is >= the current usage; if no tier qualifies it
\* returns the largest available tier and the response explicitly signals
\* this degraded case, so an insufficient tier is never recommended without
\* a caveat.
C17_CheapestSufficientTierOrCaveat ==
    (Answered /\ request.tool = "handleDatabaseTierRecommendation") =>
        LET tiers == TiersOf(request.provider)
            qualifying == QualifyingTiers(request.provider, request.storageGb)
        IN IF qualifying # {}
           THEN \E i \in qualifying :
                   /\ tiers[i].name = response.recommendedTier
                   /\ \A j \in qualifying : tiers[i].cost <= tiers[j].cost
           ELSE /\ response.recommendedTier = tiers[Len(tiers)].name
                /\ response.signalsInsufficient

\* the catalog a token-cost request is priced from
PricingOf(tool) ==
    IF tool = "estimateOpenAICost" THEN OPENAI_PRICING ELSE ANTHROPIC_PRICING
\* the cost of a catalog entry for a request's token counts
CostFor(entry, req) ==
    calculateAIModelCost(req.inputTokens, req.outputTokens,
                         PriceOf(entry, "input_per_million"),
                         PriceOf(entry, "output_per_million")).totalCost.v
TokenCostTools == {"estimateOpenAICost", "estimateAnthropicCost"}

\* C18: the alternatives list of a token-cost result is computed over every
\* other model of the same catalog: it never contains the model being
\* estimated, also when the request names that model by an alias, and it
\* consists of the N cheapest of those models in ascending cost order,
\* whether they are cheaper or dearer than the selection.
C18_AlternativesAreTheCheapestOthers ==
    (Answered /\ request.tool \in TokenCostTools /\ response.kind = "ok") =>
        LET pricing == PricingOf(request.tool)
            estimated == Canonical(request.tool, request.model)
            others == {i \in DOMAIN pricing : pricing[i].name # estimated}
            alts == response.alternatives
            listed == {alts[i].option : i \in DOMAIN alts}
        IN /\ estimated \notin listed
           /\ Len(alts) = IF Cardinality(others) < NUM_ALTERNATIVES
                          THEN Cardinality(others) ELSE NUM_ALTERNATIVES
           /\ Cardinality(listed) = Len(alts)
           /\ listed \subseteq {pricing[i].name : i \in others}
           /\ \A i \in DOMAIN alts : \A j \in DOMAIN alts :
                 i < j => alts[i].cost.v <= alts[j].cost.v
           /\ \A i \in DOMAIN alts : \A k \in others :
                 pricing[k].name \notin listed =>
                     alts[i].cost.v <= CostFor(pricing[k], request)

\* the modelData entries a switch request may be answered with: another
\* model, of at least the requested quality, strictly cheaper at the
\* request's monthly volume
SwitchCandidates(req) ==
    LET current == Lookup(ModelData, req.model)
    IN IF current = Undefined \/ ~IsFinite(PriceOf(current, "cost")) THEN {}
       ELSE {i \in DOMAIN ModelData :
               /\ ModelData[i].name # req.model
               /\ ModelData[i].quality >= MinQuality(req.qualityRequirement)
               /\ req.monthlyTokens * ModelData[i].cost
                    < req.monthlyTokens * PriceOf(current, "cost").v}
\* what a model-switch result recommends: the best alternative and the list
Recommended(r) ==
    {r.allAlternatives[i] : i \in DOMAIN r.allAlternatives}
        \cup ({r.bestAlternative} \ {Undefined})

\* C19: every alternative returned by the model-switch recommendation is
\* strictly cheaper than the current model at the stated monthly token
\* volume, is a different model and meets the requested minimum quality;
\* when no such model exists, no switch is recommended.
C19_SwitchOnlyToCheaperQualifiedModels ==
    (Answered /\ request.tool = "handleModelSwitchSavings" /\ response.kind = "ok") =>
        LET candidates == SwitchCandidates(request)
        IN /\ \A a \in Recommended(response) :
                /\ a.model # request.model
                /\ IsFinite(response.currentMonthlyCost)
                /\ a.monthlyCost.v < response.currentMonthlyCost.v
                /\ \E i \in candidates : ModelData[i].name = a.model
           /\ candidates = {} =>
                /\ response.bestAlternative = Undefined
                /\ response.allAlternatives = <<>>
\* a switch is recommended at a positive volume while another model of the
\* requested quality costs exactly as much as the current one
C19_Witness ==
    /\ Answered /\ request.tool = "handleModelSwitchSavings"
    /\ response.kind = "ok"
    /\ request.monthlyTokens > 0
    /\ response.bestAlternative # Undefined
    /\ \E i \in DOMAIN ModelData :
          /\ ModelData[i].name # request.model
          /\ ModelData[i].quality >= response.minQuality
          /\ Fin(request.monthlyTokens * ModelData[i].cost) = response.currentMonthlyCost

BreakEvenAnswered == Answered /\ request.tool = "handleBreakEvenAnalysis"
\* (upfrontB - upfrontA) / (monthlyA - monthlyB) of a request, as a pair
UpfrontDiff(req) == req.optionB.upfront - req.optionA.upfront
MonthlyDiff(req) == req.optionA.monthly - req.optionB.monthly
\* with equal monthly costs: break-even 0, and an option with the strictly
\* lower upfront cost is the one named
EqualMonthlyRule ==
    (BreakEvenAnswered /\ MonthlyDiff(request) = 0) =>
        /\ response.breakEvenPoint = Fin(0)
        /\ UpfrontDiff(request) > 0 => response.breakEvenDescription = "A has lower upfront cost"
        /\ UpfrontDiff(request) < 0 => response.breakEvenDescription = "B has lower upfront cost"

C22_NoCrossoverNamesOnlyADominatingOption ==
    (BreakEvenAnswered /\ MonthlyDiff(request) # 0
       /\ NegativeQuotient(UpfrontDiff(request), MonthlyDiff(request))) =>
        LET a == request.optionA
            b == request.optionB
        IN /\ response.breakEvenPoint = Null
           /\ response.breakEvenDescription = "A is always cheaper" =>
                 (a.upfront <= b.upfront /\ a.monthly <= b.monthly)
           /\ response.breakEvenDescription = "B is always cheaper" =>
                 (b.upfront <= a.upfront /\ b.monthly <= a.monthly)
           /\ response.winner = "A" => (a.upfront <= b.upfront /\ a.monthly <= b.monthly)
           /\ response.winner = "B" => (b.upfront <= a.upfront /\ b.monthly <= a.monthly)
           /\ response.breakEvenDescription \in
                 {"A is always cheaper", "B is always cheaper", "No break-even"}
\* option B is named the permanent winner of a request without crossover
C22_Witness ==
    /\ BreakEvenAnswered
    /\ NegativeQuotient(UpfrontDiff(request), MonthlyDiff(request))
    /\ response.breakEvenDescription = "B is always cheaper"

BandwidthAnswered == Answered /\ request.tool = "handleEstimateBandwidthCost"
RECURSIVE SumOver(_, _)
\* the sum of f over the indices in a finite set
SumOver(f, S) ==
    IF S = {} THEN 0
    ELSE LET i == CHOOSE x \in S : TRUE IN f[i] + SumOver(f, S \ {i})
\* the tier of a provider's table a breakdown entry belongs to
TierOfEntry(provider, e) ==
    CHOOSE k \in DOMAIN BANDWIDTH_TIERS[provider] :
        BANDWIDTH_TIERS[provider][k].limit = e.to
\* the breakdown follows the table from its first tier without gaps, every
\* tier but the last one used is filled to its capacity, none holds more,
\* and the GB add up to the request
AllocatedTierByTier ==
    LET b == response.breakdown
        t == BANDWIDTH_TIERS[request.provider]
    IN /\ \A i \in DOMAIN b :
             /\ b[i].to = t[i].limit
             /\ b[i].from = IF i = 1 THEN 0 ELSE t[i - 1].limit.v
             /\ b[i].gb > 0
             /\ IsFinite(t[i].limit) => b[i].gb <= t[i].limit.v - b[i].from
             /\ i < Len(b) => b[i].gb = t[i].limit.v - b[i].from
       /\ SumOver([i \in DOMAIN b |-> b[i].gb], DOMAIN b) = request.gbTransfer
\* the unrounded sum over tiers of GB in tier x tier rate, in 0.001 USD
TierCostSum ==
    LET b == response.breakdown
        t == BANDWIDTH_TIERS[request.provider]
    IN SumOver([i \in DOMAIN b |-> b[i].gb * t[i].rate], DOMAIN b)

RunwayAnswered == Answered /\ request.tool = "forecastRunway"

\* C24: with netBurn = monthlyCost - monthlyRevenue: if netBurn <= 0 the
\* runway is reported as unbounded and no error is raised; otherwise
\* runwayMonths = cashInBank / netBurn rounded to one decimal (cash 200000,
\* cost 10000, revenue 5000 gives netBurn 5000 and runway 40.0).
C24_RunwayIsCashOverNetBurn ==
    RunwayAnswered =>
        LET netBurn == request.monthlyInfraCost - request.monthlyRevenue
        IN /\ response.kind = "ok"
           /\ response.netBurn = Fin(netBurn)
           /\ netBurn <= 0 => response.runwayMonths = PosInfinity
           /\ netBurn > 0 =>
                /\ IsFinite(response.runwayMonths)
                /\ LET t == response.runwayMonths.v
                       n == 10 * request.cashInBank
                   IN 2 * t * netBurn - netBurn <= 2 * n
                        /\ 2 * n < 2 * t * netBurn + netBurn
           /\ (request.cashInBank = 200000 /\ request.monthlyInfraCost = 10000
                 /\ request.monthlyRevenue = 5000) =>
                 (response.netBurn = Fin(5000) /\ response.runwayMonths = Fin(400))
\* a runway with revenue below cost whose quotient needs rounding
C24_Witness ==
    /\ RunwayAnswered
    /\ request.monthlyRevenue > 0
    /\ request.monthlyInfraCost > request.monthlyRevenue
    /\ (10 * request.cashInBank)
          % (request.monthlyInfraCost - request.monthlyRevenue) # 0
    /\ IsFinite(response.runwayMonths)

ForecastAnswered == Answered /\ request.tool = "handleForecastScalingCost"
\* c, in cents, is n / d USD to the nearest cent
NearestCent(c, n, d) == 2 * c * d - d <= 200 * n /\ 200 * n < 2 * c * d + d
RECURSIVE ExactSpend(_, _, _, _)
\* the sum over months 1..i of b x (1+g)^i, as a multiple of 2^-months USD
ExactSpend(b, halves, i, months) ==
    IF i = 0 THEN 0
    ELSE b * Pow(halves, i) * Pow(2, months - i) + ExactSpend(b, halves, i - 1, months)

\* C25: for base cost b, growth rate g and N >= 1 months, the forecast has
\* exactly N monthly entries, month i (1..N) costing b x (1+g)^i, total
\* spend is the sum over the N months, and a cost-cliff warning is raised
\* for a month exactly when that month's cost exceeds the previous month's
\* cost by more than 50% (costs compared to the nearest cent; the month
\* before month 1 costs b).
C25_ForecastEntriesSpendAndCliffs ==
    ForecastAnswered =>
        LET b == request.cost
            h == request.halves
            N == request.months
            p == response.monthlyProjections
            Exceeds(i) == b > 0 /\ 2 * h > 6
        IN /\ Len(p) = N
           /\ \A i \in DOMAIN p :
                 p[i].month = i /\ NearestCent(p[i].cost, b * Pow(h, i), Pow(2, i))
           /\ NearestCent(response.totalSpendOverPeriod.v,
                          ExactSpend(b, h, N, N), Pow(2, N))
           /\ \A i \in 1..N : i \in response.costCliffWarnings <=> Exceeds(i)

TokenCostAnswered ==
    /\ Answered /\ request.tool \in TokenCostTools
    /\ response.kind = "ok" /\ IsFinite(response.totalCost)
\* the catalog entry a token-cost request was priced with
PricedEntry(req) == Lookup(PricingOf(req.tool), Canonical(req.tool, req.model))

\* C26: for all non-negative token counts and rates, totalCost equals
\* round4(inputCost) + round4(outputCost) within rounding tolerance (one unit
\* of the fourth decimal), where each sub-cost is (tokens / 1e6) x rate
\* rounded to 4 decimals, and totalCost never decreases when inputTokens or
\* outputTokens increases.
C26_TotalIsSumOfPartsAndMonotone ==
    TokenCostAnswered =>
        LET entry == PricedEntry(request)
            inRate == entry.input_per_million
            outRate == entry.output_per_million
            n == request.inputTokens * inRate
            m == request.outputTokens * outRate
            parts == response.inputCost.v + response.outputCost.v
        IN /\ 2 * response.inputCost.v * 10000 - 10000 <= 2 * n
           /\ 2 * n < 2 * response.inputCost.v * 10000 + 10000
           /\ 2 * response.outputCost.v * 10000 - 10000 <= 2 * m
           /\ 2 * m < 2 * response.outputCost.v * 10000 + 10000
           /\ response.totalCost.v - parts \in {-1, 0, 1}
           /\ \A i \in TokenCounts, o \in TokenCounts :
                 (i <= request.inputTokens /\ o <= request.outputTokens) =>
                     calculateAIModelCost(i, o, Fin(inRate), Fin(outRate)).totalCost.v
                        <= response.totalCost.v
\* a cost whose total differs from the sum of its rounded parts
C26_Witness ==
    /\ TokenCostAnswered
    /\ request.inputTokens > 0 /\ request.outputTokens > 0
    /\ response.totalCost.v # response.inputCost.v + response.outputCost.v

\* the type tags of the insights attached to a result
InsightTypesOf(r) ==
    IF r.tool = "forecastRunway"
    THEN {r.insights[i].type : i \in DOMAIN r.insights}
    ELSE r.insights

\* C27: every insight attached to the result of any resolver carries a type
\* tag from the closed set {warning, opportunity, prediction, benchmark,
\* action}.
C27_InsightTypesAreClosed ==
    (Answered /\ response.kind = "ok") =>
        InsightTypesOf(response) \subseteq INSIGHT_TYPES
====
